---------------------------- MODULE Spec2Model ----------------------------
(***************************************************************************)
(* Audit-Sampling-Tool: the anomaly scoring endpoint, the feature builder, *)
(* the explanation generator and the session gate in front of them.        *)
(*                                                                         *)
(* Two servers live in the repository: the blueprint application           *)
(* (src/backend/...) and the single-file application (src/app.py).  The    *)
(* variable `variant` says which one is running; the handlers branch on it *)
(* wherever the two differ.                                                *)
(*                                                                         *)
(* Data representation.                                                    *)
(*  - A string is a sequence of pieces; the piece " " is whitespace, every *)
(*    other piece is a non-blank character or chunk.  strip() drops the    *)
(*    leading and trailing whitespace pieces.                              *)
(*  - A JSON cell of a row is a record with a kind `k`: "absent" (the key  *)
(*    is not in the object), "null", "text" (a string that is no number /  *)
(*    no date), and "num", "date", "str" with the value beside it.         *)
(*  - A JSON list of rows is a sequence of runs [row, mult]: `mult`        *)
(*    consecutive copies of `row`.  Ordinary batches have mult = 1         *)
(*    everywhere; runs make the lists of 10,000 and 10,001 rows that the   *)
(*    size ceiling is about representable.  Feature vectors, scores and    *)
(*    results are kept per run in the same way: a result with `count` c    *)
(*    and `index` i stands for the c entries with indexes i .. i+c-1,      *)
(*    which all share score, verdict and reason because the rows of a run  *)
(*    are identical.                                                       *)
(*  - Batches with integer amounts are computed exactly: means and ratios  *)
(*    are rationals, and the z-score is a rational over a square root (see *)
(*    "Exact numbers").  ln(1 + x) is kept as its argument.  Amounts with  *)
(*    a fractional part are doubles, added and divided with IEEE 754       *)
(*    rounding (see "ml/features.py in binary64").                         *)
(*  - A message is a record naming its rule and the values formatted into  *)
(*    it; a reason is the sequence of the messages joined by " ", and the  *)
(*    empty string is the empty sequence.                                  *)
(*  - The Scorer (sklearn's decision_function) is external: it returns one *)
(*    score per feature row, in order, or raises.                          *)
(*  - The Feature Builder is computed cell by cell from features.py; it    *)
(*    raises only as a fault of its environment (feature_raises), which is *)
(*    what the handlers' except branches are there for.                    *)
(*  - Rows follow the data model of the service: date and amount of any    *)
(*    kind, vendor and department a string, null or absent.                *)
(*  - Requests are the ones dispatched to a view: the rate limiter and the *)
(*    16MB body ceiling in front of the views are not modelled.            *)
(***************************************************************************)
EXTENDS Integers, Sequences, FiniteSets, TLC

(***************************************************************************)
(* Bounds of the model.                                                    *)
(***************************************************************************)
MaxRows == 2

(***************************************************************************)
(* Python helpers.                                                         *)
(***************************************************************************)
None == [none |-> TRUE]

IsNone(v) == "none" \in DOMAIN v

Max(a, b) == IF a >= b THEN a ELSE b

RECURSIVE SumOver(_, _)
SumOver(S, f) ==
  IF S = {} THEN 0
  ELSE LET x == CHOOSE y \in S : TRUE IN f[x] + SumOver(S \ {x}, f)

WS == " "

RECURSIVE LStrip(_)
LStrip(s) == IF s # <<>> /\ Head(s) = WS THEN LStrip(Tail(s)) ELSE s

RECURSIVE RStrip(_)
RStrip(s) ==
  IF s # <<>> /\ s[Len(s)] = WS THEN RStrip(SubSeq(s, 1, Len(s) - 1)) ELSE s

Strip(s) == RStrip(LStrip(s))

(***************************************************************************)
(* Exact numbers: [n, d, r] is n / (d * sqrt(r)), with d > 0 and r > 0.    *)
(* A rational has r = 1.                                                   *)
(***************************************************************************)
R(a) == [n |-> a, d |-> 1, r |-> 1]

Rat(a, b) ==
  IF b < 0 THEN [n |-> 0 - a, d |-> 0 - b, r |-> 1]
  ELSE [n |-> a, d |-> b, r |-> 1]

\* x >= c, for an integer c > 0.  Under a square root the test is
\* n * n >= c * c * d * d * r, written with a division so that it stays
\* within TLC's 32-bit integers.
NumGe(x, c) ==
  IF x.r = 1 THEN x.n >= c * x.d
  ELSE x.n > 0 /\ x.n >= (c * c * x.d * x.d * x.r + x.n - 1) \div x.n

\* x > 0
NumPos(x) == x.n > 0

\* a faulty comparison: x < c where x <= c is meant
NumLeStrict(x, c) == x.n < c * x.d

\* x <= c, for a rational x and an integer c
NumLe(x, c) == x.n <= c * x.d

\* x < y, for rationals
NumLt(x, y) == x.n * y.d < y.n * x.d


(***************************************************************************)
(* ml/features.py                                                          *)
(***************************************************************************)
REQUIRED_RAW_COLUMNS == <<"date", "amount", "vendor", "department">>

UNKNOWN_VENDOR == <<"Unknown Vendor">>

UNKNOWN_DEPARTMENT == <<"Unknown Department">>

\* "now" of the run, as a calendar day (pd.Timestamp.now(tz="UTC").normalize())
TODAY == [y |-> 2024, m |-> 3, d |-> 15]

IsLeap(y) == (y % 4 = 0 /\ y % 100 # 0) \/ y % 400 = 0

DaysInMonth(y, m) ==
  IF m = 2 THEN (IF IsLeap(y) THEN 29 ELSE 28)
  ELSE IF m \in {4, 6, 9, 11} THEN 30 ELSE 31

\* days since 1970-01-01 of a civil date
DaysFromCivil(dt) ==
  LET yy  == IF dt.m <= 2 THEN dt.y - 1 ELSE dt.y
      era == yy \div 400
      yoe == yy - era * 400
      mp  == (dt.m + 9) % 12
      doy == (153 * mp + 2) \div 5 + dt.d - 1
      doe == yoe * 365 + yoe \div 4 - yoe \div 100 + doy
  IN era * 146097 + doe - 719468

\* pandas: Monday = 0; 1970-01-01 was a Thursday
DayOfWeek(dt) == (DaysFromCivil(dt) + 3) % 7

\* pd.to_numeric(errors="coerce"): a number [val], or NaN (None here)
ToNumeric(cell) == IF cell.k = "num" THEN [val |-> cell.v] ELSE None

\* pd.to_datetime(errors="coerce", utc=True): a date, or NaT (None here)
ToDatetime(cell) == IF cell.k = "date" THEN cell.v ELSE None

\* Series.fillna(value): absent keys and nulls are the missing cells of a frame
IsMissing(cell) == cell.k \in {"absent", "null"}

FrameAmount(row) ==
  LET v == ToNumeric(row.amount) IN IF IsNone(v) THEN 0 ELSE v.val

FrameVendor(row) ==
  IF IsMissing(row.vendor) THEN UNKNOWN_VENDOR ELSE row.vendor.s

FrameDepartment(row) ==
  IF IsMissing(row.department) THEN UNKNOWN_DEPARTMENT ELSE row.department.s

\* a faulty age: a missing date is aged from the epoch
_safe_doc_age_days_epoch(date) ==
  IF IsNone(date) THEN DaysFromCivil(TODAY)
  ELSE Max(DaysFromCivil(TODAY) - DaysFromCivil(date), 0)

_safe_doc_age_days(date) ==
  IF IsNone(date) THEN 0
  ELSE Max(DaysFromCivil(TODAY) - DaysFromCivil(date), 0)

\* a faulty ratio: the zero denominator is not replaced (d = 0 stands for the
\* inf / NaN of the division)
_safe_ratio_unguarded(numerator, denominator) ==
  [n |-> numerator * denominator.d, d |-> denominator.n, r |-> 1]

_safe_ratio(numerator, denominator) ==
  IF denominator.n = 0 THEN R(0)
  ELSE Rat(numerator * denominator.d, denominator.n)

\* rows of the frame, counted with their multiplicity
FrameLen(frame) ==
  SumOver(DOMAIN frame, [i \in DOMAIN frame |-> frame[i].mult])

\* a faulty key: the strings are trimmed before grouping
GroupKeyStripped(row, column) ==
  IF column = "vendor" THEN Strip(FrameVendor(row)) ELSE Strip(FrameDepartment(row))

\* the key of a row in frame.groupby(column)
GroupKey(row, column) ==
  IF column = "vendor" THEN FrameVendor(row) ELSE FrameDepartment(row)

\* frame.groupby(column)["amount"].transform("count")
GroupCount(frame, column, k) ==
  SumOver({i \in DOMAIN frame : GroupKey(frame[i].row, column) = k},
          [i \in DOMAIN frame |-> frame[i].mult])

GroupSum(frame, column, k) ==
  SumOver({i \in DOMAIN frame : GroupKey(frame[i].row, column) = k},
          [i \in DOMAIN frame |-> frame[i].mult * FrameAmount(frame[i].row)])

\* frame.groupby(column)["amount"].transform("mean")
GroupMean(frame, column, k) ==
  Rat(GroupSum(frame, column, k), GroupCount(frame, column, k))

\* (amount - mean) / denom, denom = std(ddof=0) if std > 1e-9 else 1.0:
\* with N rows, S the sum and Q the sum of squares, std = sqrt(N*Q - S*S) / N,
\* so the z-score is (N*amount - S) / sqrt(N*Q - S*S), and (N*amount - S) / N
\* when std is not above the floor (integer amounts: std > 1e-9 iff
\* N*Q - S*S > 0)
GlobalZScore(frame, amount) ==
  LET N == FrameLen(frame)
      S == SumOver(DOMAIN frame,
             [i \in DOMAIN frame |-> frame[i].mult * FrameAmount(frame[i].row)])
      Q == SumOver(DOMAIN frame,
             [i \in DOMAIN frame |->
                frame[i].mult * FrameAmount(frame[i].row) * FrameAmount(frame[i].row)])
      var == N * Q - S * S
  IN IF var > 0 THEN [n |-> N * amount - S, d |-> 1, r |-> var]
     ELSE [n |-> N * amount - S, d |-> N, r |-> 1]

FeatureRow(frame, i) ==
  LET row      == frame[i].row
      amount   == FrameAmount(row)
      txn_date == ToDatetime(row.date)
      vavg     == GroupMean(frame, "vendor", FrameVendor(row))
      davg     == GroupMean(frame, "department", FrameDepartment(row))
  IN [ amount               |-> R(amount),
       log_amount           |-> [log1p |-> Max(amount, 0)],
       day_of_week          |-> IF IsNone(txn_date) THEN 0 - 1 ELSE DayOfWeek(txn_date),
       month                |-> IF IsNone(txn_date) THEN 0 ELSE txn_date.m,
       is_month_end         |-> IF IsNone(txn_date) THEN 0
                                ELSE IF txn_date.d = DaysInMonth(txn_date.y, txn_date.m)
                                     THEN 1 ELSE 0,
       doc_age_days         |-> _safe_doc_age_days(txn_date),
       vendor_txn_freq      |-> R(GroupCount(frame, "vendor", FrameVendor(row))),
       dept_txn_freq        |-> R(GroupCount(frame, "department", FrameDepartment(row))),
       vendor_avg_amount    |-> vavg,
       dept_avg_amount      |-> davg,
       vendor_amount_ratio  |-> _safe_ratio(amount, vavg),
       dept_amount_ratio    |-> _safe_ratio(amount, davg),
       global_amount_zscore |-> GlobalZScore(frame, amount),
       vendor               |-> FrameVendor(row),
       department           |-> FrameDepartment(row) ]

\* one feature vector per run of the frame, in the frame's order
prepare_features(frame) == [i \in DOMAIN frame |-> FeatureRow(frame, i)]

(***************************************************************************)
(* ml/features.py in binary64, for amounts that are no integers.  A double *)
(* is [sign, hi, lo, e]: the value sign * (hi * 2^26 + lo) * 2^e, its      *)
(* 53-bit significand cut in two limbs (2^26 <= hi < 2^27 for a normal     *)
(* number, hi = lo = 0 for zero).  Sums and quotients are rounded to       *)
(* nearest, ties to even, as IEEE 754 arithmetic does.                     *)
(***************************************************************************)
Limb == 67108864

RECURSIVE Pow2(_)
Pow2(k) == IF k <= 0 THEN 1 ELSE 2 * Pow2(k - 1)

\* the two limbs of hi * 2^26 + lo, for lo that ran over its limb
Carry(hi, lo) == [hi |-> hi + (lo \div Limb), lo |-> lo % Limb]

\* the double nearest to (hi * 2^26 + lo + remN / remD) * 2^e, for a
\* significand of 53 to 56 bits and 0 <= remN < remD; ties go to the even
\* significand
RoundNearestEven(hi, lo, e, remN, remD) ==
  LET s   == IF hi < 2 * Limb THEN 0 ELSE IF hi < 4 * Limb THEN 1
             ELSE IF hi < 8 * Limb THEN 2 ELSE 3
      p   == Pow2(s)
      t   == (hi % p) * Limb + lo
      num == 2 * ((t % p) * remD + remN)
      den == p * remD
      up  == num > den \/ (num = den /\ (t \div p) % 2 = 1)
      c   == Carry(hi \div p, (t \div p) + (IF up THEN 1 ELSE 0))
  IN IF c.hi = 2 * Limb THEN [hi |-> Limb, lo |-> 0, e |-> e + s + 1]
     ELSE [hi |-> c.hi, lo |-> c.lo, e |-> e + s]

\* x + y for doubles of one sign whose exponents differ by 3 at most
FAdd(x, y) ==
  IF x.hi = 0 THEN y
  ELSE IF y.hi = 0 THEN x
  ELSE LET big   == IF x.e >= y.e THEN x ELSE y
           small == IF x.e >= y.e THEN y ELSE x
           p     == Pow2(big.e - small.e)
           m     == Carry(big.hi * p + small.hi, big.lo * p + small.lo)
           r     == RoundNearestEven(m.hi, m.lo, small.e, 0, 1)
       IN [sign |-> x.sign, hi |-> r.hi, lo |-> r.lo, e |-> r.e]

\* x / n for a count n of 1 to 7
FDivCount(x, n) ==
  IF x.hi = 0 THEN x
  ELSE LET m == Carry(x.hi * 8, x.lo * 8)
           t == (m.hi % n) * Limb + m.lo
           r == RoundNearestEven(m.hi \div n, t \div n, x.e - 3, t % n, n)
       IN [sign |-> x.sign, hi |-> r.hi, lo |-> r.lo, e |-> r.e]

\* Series.sum() of n copies of x: the copies are added one after the other,
\* starting from 0.0 (numpy adds fewer than 8 values in sequence)
RECURSIVE FSum(_, _)
FSum(x, n) == IF n = 1 THEN x ELSE FAdd(FSum(x, n - 1), x)

\* a - b for two doubles of one sign that are a few units in the last place
\* apart: the difference is exact, m * 2^e
FDiff(a, b) ==
  LET e  == IF a.e <= b.e THEN a.e ELSE b.e
      pa == Pow2(a.e - e)
      pb == Pow2(b.e - e)
  IN [m |-> a.sign * ((a.hi * pa - b.hi * pb) * Limb + (a.lo * pa - b.lo * pb)),
      e |-> e]

\* overall_std > 1e-9 (line 89) in a frame whose amounts all deviate from the
\* mean by d: std(ddof=0) is |d| up to rounding, and
\* 17 * 2^-34 < 1e-9 < 18 * 2^-34
StdAboveFloor(d) ==
  LET a == IF d.m < 0 THEN 0 - d.m ELSE d.m
  IN IF a = 0 THEN FALSE
     ELSE IF d.e >= 0 - 29 THEN TRUE
     ELSE IF d.e >= 0 - 34 THEN a * Pow2(d.e + 34) > 17
     ELSE a \div Pow2(0 - 34 - d.e) > 17

\* global_amount_zscore of each row of a frame of n rows that all have the
\* amount x (lines 87-92): d / denom with d = x - overall_mean, where denom
\* is 1.0 unless the standard deviation is above the floor
ConstantBatchZScore(x, n) ==
  LET overall_mean == FDivCount(FSum(x, n), n)
      d            == FDiff(x, overall_mean)
  IN [m |-> d.m, e |-> d.e, denom |-> IF StdAboveFloor(d) THEN "std" ELSE "one"]

(***************************************************************************)
(* backend/utils.py (and the same functions of app.py): the explanation    *)
(* generator.                                                              *)
(***************************************************************************)
\* a feature value that is no number (float() raises ValueError)
NotNumeric == [text |-> TRUE]

\* dict.get(key): the value, or None when the key is absent
DictGet(dict, key) == IF key \in DOMAIN dict THEN dict[key] ELSE None

\* row.get(key) of a JSON row: None for an absent key and for null
RowGet(row, key) ==
  IF key \in DOMAIN row /\ ~IsMissing(row[key]) THEN row[key] ELSE None

\* float(value) of a JSON cell or of a feature value: the number, or raises
FloatRaises(value) ==
  \/ "text" \in DOMAIN value
  \/ ("k" \in DOMAIN value /\ value.k # "num")

FloatOf(value) == IF "k" \in DOMAIN value THEN R(value.v) ELSE value

safe_float(value, default) ==
  IF IsNone(value) THEN default
  ELSE IF FloatRaises(value) THEN default
  ELSE FloatOf(value)

\* a faulty fallback: an absent key is shown as the feature sentinel
DisplayNameSentinel(row, key, fallback) ==
  LET raw      == RowGet(row, key)
      text     == IF IsNone(raw) THEN <<>> ELSE raw.s
      stripped == Strip(text)
  IN IF stripped # <<>> THEN stripped
     ELSE IF row[key].k = "absent"
       THEN (IF key = "vendor" THEN UNKNOWN_VENDOR ELSE UNKNOWN_DEPARTMENT)
     ELSE fallback

\* (row.get(key) or "").strip() or fallback
DisplayName(row, key, fallback) ==
  LET raw      == RowGet(row, key)
      text     == IF IsNone(raw) THEN <<>> ELSE raw.s
      stripped == Strip(text)
  IN IF stripped = <<>> THEN fallback ELSE stripped

THIS_VENDOR == <<"this vendor">>

THIS_DEPARTMENT == <<"this department">>

FALLBACK_REASON ==
  [rule |-> "fallback",
   text |-> "Model flagged this entry as unusual compared to prior transactions."]

\* a faulty cap: " ".join(reasons[:3])
JoinFirstThree(reasons) ==
  SubSeq(reasons, 1, IF Len(reasons) < 3 THEN Len(reasons) ELSE 3)

\* " ".join(reasons[:2])
JoinFirstTwo(reasons) ==
  SubSeq(reasons, 1, IF Len(reasons) < 2 THEN Len(reasons) ELSE 2)

\* the five rules append to reasons: List[str] in this order; the fallback
\* is returned when none did
summarize_anomaly_reason(row, features) ==
  LET vendor       == DisplayName(row, "vendor", THIS_VENDOR)
      department   == DisplayName(row, "department", THIS_DEPARTMENT)
      amount       == safe_float(RowGet(row, "amount"),
                                 safe_float(DictGet(features, "amount"), R(0)))
      vendor_avg   == safe_float(DictGet(features, "vendor_avg_amount"), R(0))
      dept_avg     == safe_float(DictGet(features, "dept_avg_amount"), R(0))
      vendor_ratio == safe_float(DictGet(features, "vendor_amount_ratio"), R(0))
      dept_ratio   == safe_float(DictGet(features, "dept_amount_ratio"), R(0))
      vendor_freq  == safe_float(DictGet(features, "vendor_txn_freq"), R(0))
      dept_freq    == safe_float(DictGet(features, "dept_txn_freq"), R(0))
      global_z     == safe_float(DictGet(features, "global_amount_zscore"), R(0))
      r1 == IF NumGe(vendor_ratio, 5) /\ NumPos(vendor_avg)
            THEN << [rule |-> "vendor_outlier", amount |-> amount,
                     ratio |-> vendor_ratio, name |-> vendor, avg |-> vendor_avg] >>
            ELSE <<>>
      r2 == IF NumGe(dept_ratio, 5) /\ NumPos(dept_avg)
            THEN << [rule |-> "dept_outlier", amount |-> amount,
                     ratio |-> dept_ratio, name |-> department, avg |-> dept_avg] >>
            ELSE <<>>
      r3 == IF NumGe(global_z, 3)
            THEN << [rule |-> "global_outlier", z |-> global_z] >>
            ELSE <<>>
      r4 == IF NumLe(vendor_freq, 1)
            THEN << [rule |-> "vendor_novelty", name |-> vendor] >>
            ELSE <<>>
      r5 == IF NumLe(dept_freq, 1)
            THEN << [rule |-> "dept_novelty", name |-> department] >>
            ELSE <<>>
      reasons == r1 \o r2 \o r3 \o r4 \o r5
  IN IF reasons = <<>> THEN << FALLBACK_REASON >>
     ELSE JoinFirstTwo(reasons)


(***************************************************************************)
(* backend/utils.py (and the same functions of app.py): the validators.    *)
(***************************************************************************)
\* str.lower(), on the pieces the model uses
LowerPiece(c) == IF c = "U" THEN "u" ELSE IF c = "X" THEN "x" ELSE c

Lower(s) == [i \in DOMAIN s |-> LowerPiece(s[i])]

\* a JSON value of a payload: a string [s |-> pieces], a number [num |-> n],
\* or None for null and for a key that is absent
IsStr(v) == "s" \in DOMAIN v

\* payload.get(key) or "": None, the empty string and 0 give ""
GetOrEmpty(payload, key) ==
  LET v == DictGet(payload, key)
  IN IF IsNone(v) \/ v = [num |-> 0] THEN [s |-> <<>>] ELSE v

\* EMAIL_REGEX = ^[^\s@]+@[^\s@]+\.[^\s@]+$
EMAIL_REGEX_match(e) ==
  \E i, j \in DOMAIN e :
    /\ 1 < i /\ i + 1 < j /\ j < Len(e)
    /\ e[i] = "@" /\ e[j] = "."
    /\ \A k \in DOMAIN e \ {i} : e[k] \notin {WS, "@"}

\* raise ValueError(message)
ValueError(message) == [ok |-> FALSE, raises |-> "ValueError", error |-> message]

\* an exception raised by an operation on a value that is no string
Raises(exception) == [ok |-> FALSE, raises |-> exception]

\* .strip() of a number raises AttributeError (lines 8-9), len() of a number
\* raises TypeError (line 17)
validate_signup_payload(payload) ==
  LET name_raw         == GetOrEmpty(payload, "name")
      email_raw        == GetOrEmpty(payload, "email")
      password         == GetOrEmpty(payload, "password")
      confirm_password == GetOrEmpty(payload, "confirmPassword")
      name             == Strip(name_raw.s)
      email            == Lower(Strip(email_raw.s))
  IN IF ~IsStr(name_raw) \/ ~IsStr(email_raw)
       THEN Raises("AttributeError")
     ELSE IF Len(name) < 2
       THEN ValueError("Name must be at least 2 characters.")
     ELSE IF ~EMAIL_REGEX_match(email)
       THEN ValueError("Enter a valid email address.")
     ELSE IF ~IsStr(password)
       THEN Raises("TypeError")
     ELSE IF Len(password.s) < 8
       THEN ValueError("Password must be at least 8 characters.")
     ELSE IF confirm_password = [s |-> <<>>]
       THEN ValueError("Password confirmation is required.")
     ELSE IF password # confirm_password
       THEN ValueError("Passwords do not match.")
     ELSE [ok |-> TRUE,
           data |-> [name |-> name, email |-> email, password |-> password]]

\* the password is returned as it came, a string or a number
validate_login_payload(payload) ==
  LET email_raw == GetOrEmpty(payload, "email")
      password  == GetOrEmpty(payload, "password")
      email     == Lower(Strip(email_raw.s))
  IN IF ~IsStr(email_raw)
       THEN Raises("AttributeError")
     ELSE IF ~EMAIL_REGEX_match(email)
       THEN ValueError("Enter a valid email address.")
     ELSE IF password = [s |-> <<>>]
       THEN ValueError("Password is required.")
     ELSE [ok |-> TRUE,
           data |-> [email |-> email, password |-> password]]

\* werkzeug: check_password_hash(generate_password_hash(p), q) iff p = q, for
\* strings; a password that is no string makes it raise
generate_password_hash(password) == [hash_of |-> password]

check_password_hash(hash, password) == hash.hash_of = password


(***************************************************************************)
(* backend/api/anomaly.py (and the same functions of app.py): the model    *)
(* cache and the score handler.                                            *)
(***************************************************************************)
MAX_BATCH == 10000

EmptyDict == << >>

\* load_anomaly_model: the new (MODEL_PIPELINE, MODEL_METADATA).  A model file
\* that cannot be unpickled leaves the pair reset; metadata that is no JSON
\* leaves the metadata empty beside the loaded pipeline.
load_anomaly_model(model_file, meta_file) ==
  IF model_file.k # "joblib"
    THEN [pipeline |-> None, metadata |-> EmptyDict]
  ELSE IF meta_file.k # "json"
    THEN [pipeline |-> model_file.obj, metadata |-> EmptyDict]
  ELSE [pipeline |-> model_file.obj, metadata |-> meta_file.doc]

\* a faulty lookup: the loaded object's offset_ is never consulted
ThresholdFromMetadataOnly(pipeline, metadata) ==
  LET threshold == DictGet(metadata, "threshold")
  IN IF ~IsNone(threshold) THEN threshold ELSE R(0)

get_anomaly_threshold(pipeline, metadata) ==
  LET threshold == DictGet(metadata, "threshold")
  IN IF ~IsNone(threshold) THEN threshold
     ELSE IF ~IsNone(pipeline) /\ pipeline.has_offset THEN pipeline.offset_
     ELSE R(0)

\* len(rows)
ListLen(rows) == SumOver(DOMAIN rows, [i \in DOMAIN rows |-> rows[i].mult])

\* a faulty enumerate(): positions counted from 1
StartIndexFromOne(rows, k) ==
  1 + SumOver({j \in DOMAIN rows : j < k}, [i \in DOMAIN rows |-> rows[i].mult])

\* enumerate(): the 0-based position of the first row of run k
StartIndex(rows, k) ==
  SumOver({j \in DOMAIN rows : j < k}, [i \in DOMAIN rows |-> rows[i].mult])

\* a faulty column check: every required column is taken to be there
FrameColumnsAssumed(rows) == {"date", "amount", "vendor", "department"}

\* pd.DataFrame(rows).columns, among the required ones: the keys of any row
FrameColumns(rows) ==
  {c \in {"date", "amount", "vendor", "department"} :
     \E i \in DOMAIN rows : rows[i].row[c].k # "absent"}

\* a faulty report: only the first missing field is named
MissingFieldsFirst(rows) ==
  LET missing == SelectSeq(REQUIRED_RAW_COLUMNS,
                           LAMBDA field : field \notin FrameColumns(rows))
  IN SubSeq(missing, 1, IF missing = << >> THEN 0 ELSE 1)

MissingFields(rows) ==
  SelectSeq(REQUIRED_RAW_COLUMNS, LAMBDA field : field \notin FrameColumns(rows))

ErrorResponse(status, message) ==
  [status |-> status, body |-> [error |-> message]]

\* an exception no handler catches: Flask's own 500 page
UnhandledException ==
  [status |-> 500, body |-> [html |-> "Internal Server Error"]]

\* login_manager.unauthorized()
Unauthorized == [status |-> 401, body |-> [html |-> "Unauthorized"]]

\* a faulty comparison: score <= threshold
IsAnomalyInclusive(score, threshold) == ~NumLt(threshold, score)

\* is_anomaly = score < threshold
IsAnomaly(score, threshold) == NumLt(score, threshold)

\* a faulty loop: every row is explained
ExplainedRunsAll(server, feature_records, scores, threshold) == DOMAIN scores

\* the runs for which the loop calls summarize_anomaly_reason
ExplainedRuns(server, feature_records, scores, threshold) ==
  {idx \in DOMAIN scores :
     IF server = "app"
     THEN IsAnomaly(scores[idx], threshold) /\ idx <= Len(feature_records)
     ELSE IsAnomaly(scores[idx], threshold)}

\* the loop over enumerate(scores)
ScoreResults(server, rows, feature_records, scores, threshold) ==
  [idx \in DOMAIN scores |->
     [ index     |-> StartIndex(rows, idx),
       count     |-> rows[idx].mult,
       score     |-> scores[idx],
       isAnomaly |-> IsAnomaly(scores[idx], threshold),
       reason    |-> IF idx \in ExplainedRuns(server, feature_records, scores, threshold)
                     THEN summarize_anomaly_reason(rows[idx].row, feature_records[idx])
                     ELSE << >> ]]

\* what a handler invoked: fb, the Feature Builder (and the frame it
\* returned); sc, the Scorer; ex, the runs it asked an explanation for
NoCalls == [fb |-> 0, features |-> << >>, sc |-> 0, ex |-> {}]

\* a faulty handler: the size of the batch is not checked
BatchTooLargeNever(rows) == FALSE

\* a faulty ceiling: len(rows) >= 10000
BatchTooLargeInclusive(rows) == ListLen(rows) >= MAX_BATCH

\* if len(rows) > 10000
BatchTooLarge(rows) == ListLen(rows) > MAX_BATCH

\* if not all(isinstance(row, dict) for row in rows), in app.py only
NotAllObjects(server, rows) ==
  server = "app" /\ \E i \in DOMAIN rows : rows[i].row.json # "object"

\* a faulty except branch: the failure is swallowed and an empty result list
\* is returned
ScoringFailedDegraded(server, stage) ==
  [status |-> 200,
   body |-> [results |-> << >>, threshold |-> R(0),
             requiredFields |-> REQUIRED_RAW_COLUMNS]]

\* the except branch around the Scorer (and, in the blueprint, around the
\* Feature Builder too; app.py calls prepare_features outside its try)
ScoringFailed(server, stage) ==
  IF server = "app"
  THEN IF stage = "features" THEN UnhandledException
       ELSE ErrorResponse(500, <<"Anomaly scoring failed. Check server logs.">>)
  ELSE ErrorResponse(500, <<"Scoring failed">>)

\* anomaly_score: the response, and beside it what the handler invoked.
\* feature_raises and scorer_out are what the two callees do.
anomaly_score(server, pipeline, metadata, transactions, feature_raises, scorer_out) ==
  IF IsNone(pipeline)
    THEN [resp |-> ErrorResponse(503,
                     IF server = "app"
                     THEN <<"Anomaly model unavailable", ". Train it before scoring data.">>
                     ELSE <<"Anomaly model unavailable">>),
          calls |-> NoCalls]
  ELSE IF transactions.k # "list" \/ transactions.rows = << >>
    THEN [resp |-> ErrorResponse(400, <<"Provide a non-empty 'transactions' array.">>),
          calls |-> NoCalls]
  ELSE IF BatchTooLarge(transactions.rows)
    THEN [resp |-> ErrorResponse(400,
                     IF server = "app"
                     THEN <<"Batch size ", "limit exceeded", ". Maximum 10,000 transactions per request.">>
                     ELSE <<"Batch size ", "limit exceeded">>),
          calls |-> NoCalls]
  ELSE IF NotAllObjects(server, transactions.rows)
    THEN [resp |-> ErrorResponse(400, <<"Each transaction must be an object.">>),
          calls |-> NoCalls]
  ELSE IF MissingFields(transactions.rows) # << >>
    THEN [resp |-> ErrorResponse(400,
                     <<IF server = "app" THEN "Missing required fields: "
                                         ELSE "Missing fields: ">>
                     \o MissingFields(transactions.rows)),
          calls |-> NoCalls]
  ELSE IF feature_raises
    THEN [resp |-> ScoringFailed(server, "features"),
          calls |-> [fb |-> 1, features |-> << >>, sc |-> 0, ex |-> {}]]
  ELSE IF scorer_out.k = "raise"
    THEN [resp |-> ScoringFailed(server, "scorer"),
          calls |-> [fb |-> 1, features |-> prepare_features(transactions.rows),
                     sc |-> 1, ex |-> {}]]
  ELSE LET rows      == transactions.rows
           features  == prepare_features(rows)
           scores    == scorer_out.v
           threshold == get_anomaly_threshold(pipeline, metadata)
           results   == ScoreResults(server, rows, features, scores, threshold)
       IN [resp |-> [status |-> 200,
                     body |-> [results |-> results,
                               threshold |-> threshold,
                               requiredFields |-> REQUIRED_RAW_COLUMNS]],
           calls |-> [fb |-> 1, features |-> features, sc |-> 1,
                      ex |-> ExplainedRuns(server, features, scores, threshold)]]


(***************************************************************************)
(* The inputs of the model.                                                *)
(***************************************************************************)
Absent == [k |-> "absent"]

Null == [k |-> "null"]

Text == [k |-> "text"]

NumCell(v) == [k |-> "num", v |-> v]

DateCell(y, m, d) == [k |-> "date", v |-> [y |-> y, m |-> m, d |-> d]]

StrCell(s) == [k |-> "str", s |-> s]

ObjectRow(date, amount, vendor, department) ==
  [json |-> "object", date |-> date, amount |-> amount,
   vendor |-> vendor, department |-> department]

\* a list element that is no JSON object (the number 5)
ScalarRow ==
  [json |-> "number", date |-> Absent, amount |-> Absent,
   vendor |-> Absent, department |-> Absent]

\* a complete row, dated at a month end
RowFull == ObjectRow(DateCell(2024, 1, 31), NumCell(100), StrCell(<<"A">>), StrCell(<<"X">>))

\* every key present, every value unusable
RowMalformed == ObjectRow(Text, Text, Null, StrCell(<<WS>>))

\* {"amount": 100}, the row of test_validation_limits
RowAmountOnly == ObjectRow(Absent, NumCell(100), Absent, Absent)

\* every key but amount, and a date in the future
RowNoAmount == ObjectRow(DateCell(2024, 4, 1), Absent, StrCell(<<"A">>), StrCell(<<"Y">>))

\* a complete row of amount 1, for the long lists
RowUnit == ObjectRow(DateCell(2024, 1, 1), NumCell(1), StrCell(<<"A">>), StrCell(<<"X">>))

EndpointRows == {RowFull, RowMalformed, RowAmountOnly, RowNoAmount}

RECURSIVE SeqsUpTo(_, _)
SeqsUpTo(S, n) ==
  IF n = 0 THEN {<< >>}
  ELSE LET shorter == SeqsUpTo(S, n - 1)
       IN shorter \cup {Append(q, x) : q \in {t \in shorter : Len(t) = n - 1}, x \in S}

Run(row, mult) == [row |-> row, mult |-> mult]

\* the lists of at most MaxRows rows (the empty list among them)
ShortLists ==
  {[i \in DOMAIN q |-> Run(q[i], 1)] : q \in SeqsUpTo(EndpointRows, MaxRows)}

\* the lists at the size ceiling and one row above it
LongLists ==
  {<<Run(r, n)>> : r \in {RowUnit, RowAmountOnly}, n \in {MAX_BATCH, MAX_BATCH + 1}}
  \cup {<<Run(RowFull, 1), Run(RowUnit, MAX_BATCH - 1)>>}

TransactionsValues ==
  {[k |-> "missing"], [k |-> "notlist"]}
  \cup {[k |-> "list", rows |-> q] : q \in ShortLists \cup LongLists \cup {<<Run(ScalarRow, 1)>>}}

Scores == {R(0 - 1), R(0), R(1)}

\* what the Scorer does with n feature rows: it raises, or returns n scores
ScorerOutcomes(n) ==
  {[k |-> "raise"]} \cup {[k |-> "scores", v |-> v] : v \in [1..n -> Scores]}

PlainPipeline == [has_offset |-> FALSE, offset_ |-> R(0)]

OffsetPipeline == [has_offset |-> TRUE, offset_ |-> R(1)]

ModelFiles ==
  {[k |-> "absent"], [k |-> "corrupt"],
   [k |-> "joblib", obj |-> PlainPipeline], [k |-> "joblib", obj |-> OffsetPipeline]}

MetaFiles ==
  {[k |-> "absent"], [k |-> "invalid"],
   [k |-> "json", doc |-> [trained_at |-> "2024-03-01T00:00:00"]],
   [k |-> "json", doc |-> [trained_at |-> "2024-03-01T00:00:00", threshold |-> R(1)]]}

S(s) == [s |-> s]

GoodPassword == <<"p", "a", "s", "s", "w", "o", "r", "d">>

OtherPassword == <<"p", "a", "s", "s", "w", "o", "r", "D">>

UserEmail == <<"u", "@", "x", ".", "y">>

SignupPayloads ==
  { [name |-> S(<<"J", "o">>), email |-> S(UserEmail),
     password |-> S(GoodPassword), confirmPassword |-> S(GoodPassword)],
    [name |-> S(<<"J", "o">>), email |-> S(UserEmail),
     password |-> S(GoodPassword), confirmPassword |-> S(OtherPassword)] }

LoginPayloads ==
  { [email |-> S(UserEmail), password |-> S(GoodPassword)],
    [email |-> S(UserEmail), password |-> S(OtherPassword)],
    [email |-> S(<<"u", "@", "x">>), password |-> S(GoodPassword)] }


(***************************************************************************)
(* The server and one client with a cookie jar.  The client sends its      *)
(* requests one after the other: a request is handled as a whole (one      *)
(* action per handler), then its response is delivered (Deliver) and the   *)
(* next request may be sent.                                               *)
(***************************************************************************)
VARIABLES
  variant,         \* "backend" (create_app) or "app" (app.py)
  modelFile,       \* ml/models/isolation_forest.joblib on disk
  metaFile,        \* ml/models/isolation_forest.json on disk
  MODEL_PIPELINE,  \* the cached pipeline, or None
  MODEL_METADATA,  \* the cached metadata dict
  users,           \* the users table, in id order
  session,         \* the client's cookie session: a user id, or 0
  req,             \* the last request
  resp,            \* its response
  calls,           \* what its handler invoked
  authHistory      \* history: "login" / "logout", the last of the two that
                   \* was answered 200 ("none" before the first)

vars ==
  <<variant, modelFile, metaFile, MODEL_PIPELINE, MODEL_METADATA,
    users, session, req, resp, calls, authHistory>>

NoRequest == [route |-> "none"]

NoResponse == [status |-> 0, body |-> [html |-> ""]]

Init ==
  /\ variant \in {"backend", "app"}
  /\ modelFile \in ModelFiles
  /\ metaFile \in MetaFiles
  \* app.py loads the model when it is imported; the blueprint on a request
  /\ MODEL_PIPELINE = IF variant = "app"
                      THEN load_anomaly_model(modelFile, metaFile).pipeline
                      ELSE None
  /\ MODEL_METADATA = IF variant = "app"
                      THEN load_anomaly_model(modelFile, metaFile).metadata
                      ELSE EmptyDict
  /\ users = << >>
  /\ session = 0
  /\ req = NoRequest
  /\ resp = NoResponse
  /\ calls = NoCalls
  /\ authHistory = "none"

\* ensure_model_loaded, the blueprint's before_app_request hook: the cache
\* as the view finds it
ensure_model_loaded ==
  IF variant = "backend" /\ IsNone(MODEL_PIPELINE)
  THEN load_anomaly_model(modelFile, metaFile)
  ELSE [pipeline |-> MODEL_PIPELINE, metadata |-> MODEL_METADATA]

BeforeRequest ==
  /\ req = NoRequest
  /\ MODEL_PIPELINE' = ensure_model_loaded.pipeline
  /\ MODEL_METADATA' = ensure_model_loaded.metadata

\* User.query.filter_by(email=email).first(): an id, or 0
UserByEmail(email) ==
  IF \E i \in DOMAIN users : users[i].email = email
  THEN CHOOSE i \in DOMAIN users :
         users[i].email = email /\ \A j \in DOMAIN users : users[j].email = email => i <= j
  ELSE 0

\* @login_required: the session names a stored user
IsAuthenticated == session \in DOMAIN users

signup(payload) ==
  LET v == validate_signup_payload(payload)
  IN IF ~v.ok /\ v.raises # "ValueError"
       THEN [resp |-> UnhandledException, users |-> users]
     ELSE IF ~v.ok
       THEN [resp |-> [status |-> 400, body |-> [error |-> v.error]], users |-> users]
     ELSE IF UserByEmail(v.data.email) # 0
       THEN [resp |-> [status |-> 409,
                       body |-> [error |-> IF variant = "app"
                                           THEN "An account with that email already exists."
                                           ELSE "Email already exists"]],
             users |-> users]
     ELSE [resp |-> [status |-> 201, body |-> [message |-> "Account created successfully."]],
           users |-> Append(users,
                       [name |-> v.data.name, email |-> v.data.email,
                        password_hash |-> generate_password_hash(v.data.password.s)])]

Signup(payload) ==
  /\ BeforeRequest
  /\ req' = [route |-> "signup", payload |-> payload]
  /\ resp' = signup(payload).resp
  /\ users' = signup(payload).users
  /\ calls' = NoCalls
  /\ UNCHANGED <<variant, modelFile, metaFile, session, authHistory>>

login(payload) ==
  LET v    == validate_login_payload(payload)
      user == IF v.ok THEN UserByEmail(v.data.email) ELSE 0
  IN IF ~v.ok /\ v.raises # "ValueError"
       THEN [resp |-> UnhandledException, session |-> session]
     ELSE IF ~v.ok
       THEN [resp |-> [status |-> 400, body |-> [error |-> v.error]], session |-> session]
     ELSE IF user # 0 /\ ~IsStr(v.data.password)
       THEN [resp |-> UnhandledException, session |-> session]
     ELSE IF user = 0 \/ ~check_password_hash(users[user].password_hash, v.data.password.s)
       THEN [resp |-> [status |-> 401, body |-> [error |-> "Invalid email or password"]],
             session |-> session]
     ELSE [resp |-> [status |-> 200,
                     body |-> [message |-> "Signed in successfully.",
                               token |-> [user_id |-> user],
                               user |-> [id |-> user, name |-> users[user].name]]],
           session |-> user]

Login(payload) ==
  /\ BeforeRequest
  /\ req' = [route |-> "login", payload |-> payload]
  /\ resp' = login(payload).resp
  /\ session' = login(payload).session
  /\ authHistory' = IF login(payload).resp.status = 200 THEN "login" ELSE authHistory
  /\ calls' = NoCalls
  /\ UNCHANGED <<variant, modelFile, metaFile, users>>

\* a faulty logout: the session is left in place
logoutKeepingSession ==
  IF ~IsAuthenticated
  THEN [resp |-> Unauthorized, session |-> session]
  ELSE [resp |-> [status |-> 200, body |-> [message |-> "Logged out successfully."]],
        session |-> session]

logout ==
  IF ~IsAuthenticated
  THEN [resp |-> Unauthorized, session |-> session]
  ELSE [resp |-> [status |-> 200, body |-> [message |-> "Logged out successfully."]],
        session |-> 0]

Logout ==
  /\ BeforeRequest
  /\ req' = [route |-> "logout"]
  /\ resp' = logout.resp
  /\ session' = logout.session
  /\ authHistory' = IF logout.resp.status = 200 THEN "logout" ELSE authHistory
  /\ calls' = NoCalls
  /\ UNCHANGED <<variant, modelFile, metaFile, users>>

\* POST /api/anomaly/score
score(transactions, feature_raises, scorer_out) ==
  IF ~IsAuthenticated
  THEN [resp |-> Unauthorized, calls |-> NoCalls]
  ELSE anomaly_score(variant, ensure_model_loaded.pipeline, ensure_model_loaded.metadata,
                     transactions, feature_raises, scorer_out)

Score(transactions, feature_raises, scorer_out) ==
  /\ BeforeRequest
  \* the request, and beside it what its callees did: whether the Feature
  \* Builder raised, and the scores the Scorer returned (none if it raised
  \* or was not reached)
  /\ req' = [route |-> "score", transactions |-> transactions,
             feature_raised |->
               score(transactions, feature_raises, scorer_out).calls.fb = 1
               /\ feature_raises,
             scores |-> IF score(transactions, feature_raises, scorer_out).calls.sc = 1
                           /\ scorer_out.k = "scores"
                        THEN scorer_out.v ELSE << >>]
  /\ resp' = score(transactions, feature_raises, scorer_out).resp
  /\ calls' = score(transactions, feature_raises, scorer_out).calls
  /\ UNCHANGED <<variant, modelFile, metaFile, users, session, authHistory>>

\* ml/train_isolation_forest.py: main() dumps the pipeline, then writes the
\* metadata with its threshold
TrainDump ==
  /\ req = NoRequest
  /\ modelFile # [k |-> "joblib", obj |-> PlainPipeline]
  /\ modelFile' = [k |-> "joblib", obj |-> PlainPipeline]
  /\ UNCHANGED <<variant, metaFile, MODEL_PIPELINE, MODEL_METADATA,
                 users, session, req, resp, calls, authHistory>>

TrainWriteMeta ==
  /\ req = NoRequest
  /\ modelFile = [k |-> "joblib", obj |-> PlainPipeline]
  /\ metaFile' = [k |-> "json",
                  doc |-> [trained_at |-> "2024-03-01T00:00:00", threshold |-> R(1)]]
  /\ UNCHANGED <<variant, modelFile, MODEL_PIPELINE, MODEL_METADATA,
                 users, session, req, resp, calls, authHistory>>

\* the response reaches the client and the request context is torn down
Deliver ==
  /\ req # NoRequest
  /\ req' = NoRequest
  /\ resp' = NoResponse
  /\ calls' = NoCalls
  /\ UNCHANGED <<variant, modelFile, metaFile, MODEL_PIPELINE, MODEL_METADATA,
                 users, session, authHistory>>

NRows(transactions) == IF transactions.k = "list" THEN Len(transactions.rows) ELSE 0

Next ==
  \/ \E payload \in SignupPayloads : Signup(payload)
  \/ \E payload \in LoginPayloads : Login(payload)
  \/ Logout
  \/ \E t \in TransactionsValues, fr \in BOOLEAN :
       \E so \in ScorerOutcomes(NRows(t)) : Score(t, fr, so)
  \/ Deliver
  \/ TrainDump
  \/ TrainWriteMeta

Spec == Init /\ [][Next]_vars


(***************************************************************************)
(* The explanation generator on its own: summarize_anomaly_reason is       *)
(* called with a raw row and a feature dict, as test_backend.py does.  The *)
(* feature dicts are drawn around the thresholds of the five rules, with   *)
(* keys left out and values that are no numbers among them.                *)
(***************************************************************************)
ExplainRows == {RowFull, RowMalformed, RowNoAmount}

ExplainFeatures ==
  [ amount               : {R(100)},
    vendor_amount_ratio  : {R(4), R(5)},
    vendor_avg_amount    : {R(0), R(20)},
    dept_amount_ratio    : {Rat(49, 10), R(6)},
    dept_avg_amount      : {R(0), R(20)},
    global_amount_zscore : {R(2), R(3), NotNumeric},
    vendor_txn_freq      : {R(1), R(2)},
    dept_txn_freq        : {R(1), R(2)} ]
  \cup { EmptyDict,
         [vendor_amount_ratio |-> R(5)],
         [vendor_amount_ratio |-> R(5), vendor_avg_amount |-> R(20),
          vendor_txn_freq |-> R(2), dept_txn_freq |-> None] }

InitExplain ==
  /\ variant \in {"backend", "app"}
  /\ modelFile = [k |-> "absent"]
  /\ metaFile = [k |-> "absent"]
  /\ MODEL_PIPELINE = None
  /\ MODEL_METADATA = EmptyDict
  /\ users = << >>
  /\ session = 0
  /\ req = NoRequest
  /\ resp = NoResponse
  /\ calls = NoCalls
  /\ authHistory = "none"

\* one call of summarize_anomaly_reason(row, features)
Explain(row, features) ==
  /\ req = NoRequest
  /\ req' = [route |-> "explain", row |-> row, features |-> features]
  /\ resp' = [status |-> 200,
              body |-> [reason |-> summarize_anomaly_reason(row, features)]]
  /\ calls' = [NoCalls EXCEPT !.ex = {1}]
  /\ UNCHANGED <<variant, modelFile, metaFile, MODEL_PIPELINE, MODEL_METADATA,
                 users, session, authHistory>>

NextExplain ==
  \/ \E row \in ExplainRows, features \in ExplainFeatures : Explain(row, features)
  \/ Deliver

SpecExplain == InitExplain /\ [][NextExplain]_vars


(***************************************************************************)
(* The Feature Builder on its own: prepare_features is called on a frame,  *)
(* possibly on another caller's frame next, and on the first frame again.  *)
(* The frames group by vendors that differ by case, by trailing white      *)
(* space, that are missing, and that are literally the sentinel; amounts   *)
(* cancel within a group, are zero, and are unusable.                      *)
(***************************************************************************)
MaxFrame == 3

FeatureRows ==
  { ObjectRow(DateCell(2024, 2, 29), NumCell(100), StrCell(<<"A">>), StrCell(<<"X">>)),
    ObjectRow(DateCell(2024, 3, 14), NumCell(0 - 100), StrCell(<<"A">>), StrCell(<<"X">>)),
    ObjectRow(Absent, NumCell(300), StrCell(<<"a">>), StrCell(<<"X">>)),
    ObjectRow(Null, NumCell(100), StrCell(<<"A", WS>>), Null),
    ObjectRow(Text, Text, Absent, Absent),
    ObjectRow(Absent, NumCell(300), StrCell(UNKNOWN_VENDOR), StrCell(UNKNOWN_DEPARTMENT)),
    ObjectRow(Absent, NumCell(100), StrCell(<<WS>>), StrCell(<<>>)) }

FeatureFrames ==
  {[i \in DOMAIN q |-> Run(q[i], 1)] : q \in SeqsUpTo(FeatureRows, MaxFrame) \ {<< >>}}

\* the frames of the other callers
OtherFrames == {<<Run(RowFull, 1)>>, <<Run(RowMalformed, 1), Run(RowUnit, 1)>>}

\* the frame prepare_features works on after lines 58-64: amount coerced and
\* filled, vendor and department filled
NormalisedFrame(data) ==
  [i \in DOMAIN data |->
     [data[i] EXCEPT !.row =
        [data[i].row EXCEPT !.amount = NumCell(FrameAmount(data[i].row)),
                            !.vendor = StrCell(FrameVendor(data[i].row)),
                            !.department = StrCell(FrameDepartment(data[i].row))]]]

\* a faulty "frame = data": the assignments reach the caller's frame
CallerFrameAliased(data) == NormalisedFrame(data)

\* frame = data.copy(): the assignments go to the copy, the caller's frame is
\* what it was
CallerFrameAfter(data) == data

\* the reasons the explanation generator gives for the rows of a frame
ReasonsOf(data) ==
  [i \in DOMAIN data |->
     summarize_anomaly_reason(data[i].row, prepare_features(data)[i])]

InitFeatures == InitExplain

\* a caller builds the features of its frame
Build(data) ==
  /\ req = NoRequest
  /\ req' = [route |-> "features", phase |-> "first",
             input |-> data, data |-> CallerFrameAfter(data)]
  /\ calls' = [NoCalls EXCEPT !.fb = 1, !.features = prepare_features(data)]
  /\ resp' = [status |-> 0,
              body |-> [first |-> prepare_features(data), reasons |-> ReasonsOf(data)]]
  /\ UNCHANGED <<variant, modelFile, metaFile, MODEL_PIPELINE, MODEL_METADATA,
                 users, session, authHistory>>

\* another caller builds the features of another frame in between
BuildOther(other) ==
  /\ req.route = "features" /\ req.phase = "first"
  /\ req' = [req EXCEPT !.phase = "other"]
  /\ calls' = [calls EXCEPT !.fb = 2, !.features = prepare_features(other)]
  /\ UNCHANGED <<variant, modelFile, metaFile, MODEL_PIPELINE, MODEL_METADATA,
                 users, session, resp, authHistory>>

\* the first caller builds the features of its frame again
BuildAgain ==
  /\ req.route = "features" /\ req.phase \in {"first", "other"}
  /\ req' = [req EXCEPT !.phase = "again", !.data = CallerFrameAfter(req.data)]
  /\ calls' = [calls EXCEPT !.fb = calls.fb + 1,
                            !.features = prepare_features(req.data)]
  /\ UNCHANGED <<variant, modelFile, metaFile, MODEL_PIPELINE, MODEL_METADATA,
                 users, session, resp, authHistory>>

NextFeatures ==
  \/ \E data \in FeatureFrames : Build(data)
  \/ \E other \in OtherFrames : BuildOther(other)
  \/ BuildAgain
  \/ Deliver

SpecFeatures == InitFeatures /\ [][NextFeatures]_vars


(***************************************************************************)
(* The z-score of constant batches: prepare_features is called with frames *)
(* of 1 to MaxBatch rows that all carry the same amount, a JSON number     *)
(* with a fractional part such as 0.1 or 19.99.                            *)
(***************************************************************************)
MaxBatch == 5

Double(sign, hi, lo, e) == [sign |-> sign, hi |-> hi, lo |-> lo, e |-> e]

\* float("0.1"), float("0.2"), ... : the doubles nearest to the decimals,
\* their negatives, and 0.0
ConstantAmounts ==
  LET Positive ==
        { Double(1, 107374182, 26843546, 0 - 56),    \* 0.1
          Double(1, 107374182, 26843546, 0 - 55),    \* 0.2
          Double(1, 80530636, 53687091, 0 - 54),     \* 0.3
          Double(1, 67108864, 0, 0 - 53),            \* 0.5
          Double(1, 93952409, 40265318, 0 - 53),     \* 0.7
          Double(1, 73819750, 26843546, 0 - 52),     \* 1.1
          Double(1, 83886080, 0, 0 - 51),            \* 2.5
          Double(1, 72980889, 40265318, 0 - 50),     \* 4.35
          Double(1, 83844136, 64424509, 0 - 48),     \* 19.99
          Double(1, 104805171, 13421773, 0 - 46),    \* 99.95
          Double(1, 104857600, 0, 0 - 46),           \* 100.0
          Double(1, 80908124, 10737418, 0 - 42) }    \* 1234.56
  IN Positive \cup {[x EXCEPT !.sign = 0 - 1] : x \in Positive}
       \cup {Double(1, 0, 0, 0)}

\* prepare_features on a frame of n rows with the amount x
BuildConstant(x, n) ==
  /\ req' = [route |-> "zscore", amount |-> x, rows |-> n]
  /\ calls' = [NoCalls EXCEPT !.fb = 1]
  /\ resp' = [status |-> 0,
              body |-> [global_amount_zscore |-> ConstantBatchZScore(x, n)]]
  /\ UNCHANGED <<variant, modelFile, metaFile, MODEL_PIPELINE, MODEL_METADATA,
                 users, session, authHistory>>

NextZScore == \E x \in ConstantAmounts : \E n \in 1..MaxBatch : BuildConstant(x, n)

SpecZScore == InitExplain /\ [][NextZScore]_vars

(***************************************************************************)
(* The validators on their own: validate_signup_payload and                *)
(* validate_login_payload are called with a decoded JSON object, as        *)
(* test_backend.py and the handlers do.  A value is a string, a number or  *)
(* None (null, or the key is absent).                                      *)
(***************************************************************************)
ValidatorPayloads ==
  LET names     == {None, S(<<"J">>), S(<<WS, "J", WS>>), S(<<"J", "o">>),
                    S(<<WS, "J", "o", WS>>), [num |-> 0], [num |-> 123]}
      emails    == {None, S(UserEmail), S(<<WS, "U", "@", "X", ".", "y", WS>>),
                    S(<<"u", "@", "x">>), [num |-> 123]}
      passwords == {None, S(GoodPassword), S(<<"p", "a", "s", "s">>),
                    [num |-> 12345678]}
      confirms  == {None, S(GoodPassword), S(OtherPassword), S(<<"p", "a", "s", "s">>),
                    [num |-> 12345678]}
  IN {[confirmPassword |-> c, email |-> e, name |-> n, password |-> p] :
        c \in confirms, e \in emails, n \in names, p \in passwords}

ValidateSignup(payload) ==
  /\ req' = [route |-> "validate_signup", payload |-> payload]
  /\ resp' = [status |-> 0, body |-> validate_signup_payload(payload)]
  /\ calls' = NoCalls
  /\ UNCHANGED <<variant, modelFile, metaFile, MODEL_PIPELINE, MODEL_METADATA,
                 users, session, authHistory>>

ValidateLogin(payload) ==
  /\ req' = [route |-> "validate_login", payload |-> payload]
  /\ resp' = [status |-> 0, body |-> validate_login_payload(payload)]
  /\ calls' = NoCalls
  /\ UNCHANGED <<variant, modelFile, metaFile, MODEL_PIPELINE, MODEL_METADATA,
                 users, session, authHistory>>

NextValidate ==
  \E payload \in ValidatorPayloads :
    \/ ValidateSignup(payload)
    \/ ValidateLogin([email |-> payload.email, password |-> payload.password])

SpecValidate == InitExplain /\ [][NextValidate]_vars

(***************************************************************************)
(* The blueprint server with several worker threads.  Each thread handles  *)
(* one score request at a time, step by step: the before_app_request hook, *)
(* the statements of load_anomaly_model, and the reads of the two module   *)
(* globals in the view.  A step is one read or one write of a global, the  *)
(* granularity at which Python threads interleave.  The model and its      *)
(* metadata are on disk, the client is logged in, and every request        *)
(* carries one complete row.  Here req, resp and calls hold one entry per  *)
(* thread, and req[t].pc is the position of thread t.                      *)
(***************************************************************************)
MaxThreads == 2

InitConcurrent ==
  /\ variant = "backend"
  /\ modelFile = [k |-> "joblib", obj |-> PlainPipeline]
  /\ metaFile = [k |-> "json",
                 doc |-> [trained_at |-> "2024-03-01T00:00:00", threshold |-> R(1)]]
  /\ MODEL_PIPELINE = None
  /\ MODEL_METADATA = EmptyDict
  /\ users = <<[name |-> <<"J", "o">>, email |-> UserEmail,
                password_hash |-> generate_password_hash(GoodPassword)]>>
  /\ session = 1
  /\ authHistory = "login"
  /\ req = [t \in 1..MaxThreads |-> [pc |-> "idle", scores |-> << >>]]
  /\ resp = [t \in 1..MaxThreads |-> NoResponse]
  /\ calls = [t \in 1..MaxThreads |-> NoCalls]

\* a score request is dispatched to thread t
Arrive(t) ==
  /\ req[t].pc \in {"idle", "done"}
  /\ req' = [req EXCEPT ![t] = [pc |-> "hook", scores |-> << >>]]
  /\ resp' = [resp EXCEPT ![t] = NoResponse]
  /\ calls' = [calls EXCEPT ![t] = NoCalls]
  /\ UNCHANGED <<variant, modelFile, metaFile, MODEL_PIPELINE, MODEL_METADATA,
                 users, session, authHistory>>

\* ensure_model_loaded: if MODEL_PIPELINE is None: load_anomaly_model()
EnsureModelLoaded(t) ==
  /\ req[t].pc = "hook"
  /\ req' = [req EXCEPT ![t].pc = IF IsNone(MODEL_PIPELINE) THEN "line29" ELSE "view"]
  /\ UNCHANGED <<variant, modelFile, metaFile, MODEL_PIPELINE, MODEL_METADATA,
                 users, session, resp, calls, authHistory>>

\* load_anomaly_model, one statement at a time: line 29 resets the pipeline,
\* line 30 resets the metadata, line 36 stores the loaded pipeline, lines
\* 37-38 store the metadata
LoadStep(t) ==
  LET loaded == load_anomaly_model(modelFile, metaFile)
  IN /\ req[t].pc \in {"line29", "line30", "line36", "line37"}
     /\ MODEL_PIPELINE' = IF req[t].pc = "line29" THEN None
                          ELSE IF req[t].pc = "line36" THEN loaded.pipeline
                          ELSE MODEL_PIPELINE
     /\ MODEL_METADATA' = IF req[t].pc = "line30" THEN EmptyDict
                          ELSE IF req[t].pc = "line37" THEN loaded.metadata
                          ELSE MODEL_METADATA
     /\ req' = [req EXCEPT ![t].pc =
                  IF req[t].pc = "line29" THEN "line30"
                  ELSE IF req[t].pc = "line30"
                    THEN (IF modelFile.k = "absent" THEN "view" ELSE "line36")
                  ELSE IF req[t].pc = "line36"
                    THEN (IF IsNone(loaded.pipeline) THEN "view" ELSE "line37")
                  ELSE "view"]
     /\ UNCHANGED <<variant, modelFile, metaFile, users, session, resp, calls,
                    authHistory>>

\* anomaly_score, lines 73-89: the availability check, and the checks of the
\* body, which the one complete row passes
ViewCheck(t) ==
  /\ req[t].pc = "view"
  /\ IF IsNone(MODEL_PIPELINE)
     THEN /\ req' = [req EXCEPT ![t].pc = "done"]
          /\ resp' = [resp EXCEPT ![t] =
                        ErrorResponse(503, <<"Anomaly model unavailable">>)]
     ELSE /\ req' = [req EXCEPT ![t].pc = "line94"]
          /\ UNCHANGED resp
  /\ UNCHANGED <<variant, modelFile, metaFile, MODEL_PIPELINE, MODEL_METADATA,
                 users, session, calls, authHistory>>

\* lines 92-96: prepare_features, then MODEL_PIPELINE.decision_function, which
\* raises AttributeError inside the try block when the global is None
Scoring(t, value) ==
  LET rows == <<Run(RowFull, 1)>>
  IN /\ req[t].pc = "line94"
     /\ IF IsNone(MODEL_PIPELINE)
        THEN /\ req' = [req EXCEPT ![t].pc = "done"]
             /\ resp' = [resp EXCEPT ![t] = ScoringFailed("backend", "scorer")]
             /\ calls' = [calls EXCEPT ![t] =
                            [fb |-> 1, features |-> prepare_features(rows),
                             sc |-> 0, ex |-> {}]]
        ELSE /\ req' = [req EXCEPT ![t] = [pc |-> "line98", scores |-> <<value>>]]
             /\ calls' = [calls EXCEPT ![t] =
                            [fb |-> 1, features |-> prepare_features(rows),
                             sc |-> 1, ex |-> {}]]
             /\ UNCHANGED resp
     /\ UNCHANGED <<variant, modelFile, metaFile, MODEL_PIPELINE, MODEL_METADATA,
                    users, session, authHistory>>

\* lines 98-119: get_anomaly_threshold() reads the two globals, then the loop
\* classifies and the response is built
Classify(t) ==
  LET rows      == <<Run(RowFull, 1)>>
      features  == calls[t].features
      threshold == get_anomaly_threshold(MODEL_PIPELINE, MODEL_METADATA)
  IN /\ req[t].pc = "line98"
     /\ req' = [req EXCEPT ![t].pc = "done"]
     /\ resp' = [resp EXCEPT ![t] =
                   [status |-> 200,
                    body |-> [results |-> ScoreResults("backend", rows, features,
                                                       req[t].scores, threshold),
                              threshold |-> threshold,
                              requiredFields |-> REQUIRED_RAW_COLUMNS]]]
     /\ calls' = [calls EXCEPT ![t].ex =
                    ExplainedRuns("backend", features, req[t].scores, threshold)]
     /\ UNCHANGED <<variant, modelFile, metaFile, MODEL_PIPELINE, MODEL_METADATA,
                    users, session, authHistory>>

NextConcurrent ==
  \E t \in 1..MaxThreads :
    \/ Arrive(t)
    \/ EnsureModelLoaded(t)
    \/ LoadStep(t)
    \/ ViewCheck(t)
    \/ \E value \in Scores : Scoring(t, value)
    \/ Classify(t)

SpecConcurrent == InitConcurrent /\ [][NextConcurrent]_vars

(***************************************************************************)
(* Bearer tokens.  One account exists; the client keeps the cookie session *)
(* and the token of its last successful login, and sends each request with *)
(* no Authorization header, with that token, or with a string that is no   *)
(* token.  Here authHistory is a record: the last of login / logout that   *)
(* was answered 200, the token the client holds, and the clock, which      *)
(* advances in steps of 12 hours.  A token is [user_id, issued].           *)
(***************************************************************************)
MaxClock == 3

MAX_AGE == 86400

\* a faulty serializer: tokens are refused once the user has logged out
loadsUnlessLoggedOut(token, now) ==
  IF "forged" \in DOMAIN token \/ authHistory.event = "logout" THEN None
  ELSE IF (now - token.issued) * 43200 > MAX_AGE THEN None
  ELSE [user_id |-> token.user_id]

\* URLSafeTimedSerializer.loads(token, max_age=86400): the payload, or None
\* when it raises (bad signature, or age > max_age)
loads(token, now) ==
  IF "forged" \in DOMAIN token THEN None
  ELSE IF (now - token.issued) * 43200 > MAX_AGE THEN None
  ELSE [user_id |-> token.user_id]

\* the request_loader: a user id, or 0
load_user_from_request(header, now) ==
  IF IsNone(header) THEN 0
  ELSE IF IsNone(loads(header, now)) THEN 0
  ELSE IF loads(header, now).user_id \in DOMAIN users THEN loads(header, now).user_id
  ELSE 0

\* flask_login's current_user: the user of the cookie session (user_loader),
\* and only without one the user of the request_loader
current_user(header, now) ==
  IF session \in DOMAIN users THEN session ELSE load_user_from_request(header, now)

InitToken ==
  /\ variant \in {"backend", "app"}
  /\ modelFile = [k |-> "absent"]
  /\ metaFile = [k |-> "absent"]
  /\ MODEL_PIPELINE = None
  /\ MODEL_METADATA = EmptyDict
  /\ users = <<[name |-> <<"J", "o">>, email |-> UserEmail,
                password_hash |-> generate_password_hash(GoodPassword)]>>
  /\ session = 0
  /\ req = NoRequest
  /\ resp = NoResponse
  /\ calls = NoCalls
  /\ authHistory = [event |-> "none", token |-> None, now |-> 0]

\* POST /api/auth/login: login_user, and a token stamped with the time
TokenLogin(payload) ==
  /\ req' = [route |-> "login", payload |-> payload, now |-> authHistory.now]
  /\ resp' = login(payload).resp
  /\ session' = login(payload).session
  /\ authHistory' =
       IF login(payload).resp.status = 200
       THEN [event |-> "login",
             token |-> [user_id |-> login(payload).resp.body.token.user_id,
                        issued |-> authHistory.now],
             now |-> authHistory.now]
       ELSE authHistory
  /\ calls' = NoCalls
  /\ UNCHANGED <<variant, modelFile, metaFile, MODEL_PIPELINE, MODEL_METADATA, users>>

\* POST /api/auth/logout, behind @login_required: logout_user() ends the
\* cookie session
TokenLogout(header) ==
  /\ req' = [route |-> "logout", header |-> header, now |-> authHistory.now]
  /\ IF current_user(header, authHistory.now) = 0
     THEN /\ resp' = Unauthorized
          /\ UNCHANGED <<session, authHistory>>
     ELSE /\ resp' = [status |-> 200, body |-> [message |-> "Logged out successfully."]]
          /\ session' = 0
          /\ authHistory' = [authHistory EXCEPT !.event = "logout"]
  /\ calls' = NoCalls
  /\ UNCHANGED <<variant, modelFile, metaFile, MODEL_PIPELINE, MODEL_METADATA, users>>

\* GET /api/anomaly/meta, behind @login_required
AnomalyMeta(header) ==
  /\ req' = [route |-> "meta", header |-> header, now |-> authHistory.now]
  /\ resp' = IF current_user(header, authHistory.now) = 0 THEN Unauthorized
             ELSE [status |-> 200,
                   body |-> [available |-> FALSE,
                             requiredFields |-> REQUIRED_RAW_COLUMNS,
                             threshold |-> None, trainedAt |-> None,
                             message |-> "Isolation Forest model not trained yet."]]
  /\ calls' = NoCalls
  /\ UNCHANGED <<variant, modelFile, metaFile, MODEL_PIPELINE, MODEL_METADATA,
                 users, session, authHistory>>

\* 12 hours pass
Tick ==
  /\ authHistory.now < MaxClock
  /\ authHistory' = [authHistory EXCEPT !.now = authHistory.now + 1]
  /\ UNCHANGED <<variant, modelFile, metaFile, MODEL_PIPELINE, MODEL_METADATA,
                 users, session, req, resp, calls>>

NextToken ==
  \/ \E payload \in LoginPayloads : TokenLogin(payload)
  \/ \E header \in {None, authHistory.token, [forged |-> TRUE]} :
       \/ TokenLogout(header)
       \/ AnomalyMeta(header)
  \/ Tick

SpecToken == InitToken /\ [][NextToken]_vars

(***************************************************************************)
(* Concurrent signups.  The server runs each request in a thread of its    *)
(* own over one database, empty at the start.  A signup is validated, then *)
(* (create_app only) the table is queried for the email, then the row is   *)
(* inserted and committed; the column email is UNIQUE, so the commit of a  *)
(* second row with a stored email raises IntegrityError.  Here req, resp   *)
(* and calls are functions of the thread; calls[t].added counts the rows   *)
(* the request of thread t has added.                                      *)
(***************************************************************************)
SignupRacePayloads ==
  { [name |-> S(<<"J", "o">>), email |-> S(e),
     password |-> S(GoodPassword), confirmPassword |-> S(c)] :
      e \in {UserEmail, <<WS, "U", "@", "X", ".", "y">>, <<"v", "@", "x", ".", "y">>,
             <<"u", "@", "x">>},
      c \in {GoodPassword, OtherPassword} }

InitSignup ==
  /\ variant \in {"backend", "app"}
  /\ modelFile = [k |-> "absent"]
  /\ metaFile = [k |-> "absent"]
  /\ MODEL_PIPELINE = None
  /\ MODEL_METADATA = EmptyDict
  /\ users = << >>
  /\ session = 0
  /\ authHistory = "none"
  /\ req = [t \in 1..MaxThreads |-> [pc |-> "idle"]]
  /\ resp = [t \in 1..MaxThreads |-> NoResponse]
  /\ calls = [t \in 1..MaxThreads |-> [added |-> 0]]

\* POST /api/auth/signup is dispatched to thread t
SignupArrive(t, payload) ==
  /\ req[t].pc \in {"idle", "done"}
  /\ req' = [req EXCEPT ![t] = [pc |-> "validate", payload |-> payload]]
  /\ resp' = [resp EXCEPT ![t] = NoResponse]
  /\ calls' = [calls EXCEPT ![t] = [added |-> 0]]
  /\ UNCHANGED <<variant, modelFile, metaFile, MODEL_PIPELINE, MODEL_METADATA,
                 users, session, authHistory>>

\* data = validate_signup_payload(payload); ValueError is answered 400
SignupValidate(t) ==
  LET v == validate_signup_payload(req[t].payload)
  IN /\ req[t].pc = "validate"
     /\ req' = [req EXCEPT ![t].pc = IF ~v.ok THEN "done"
                                     ELSE IF variant = "backend" THEN "query"
                                     ELSE "commit"]
     /\ resp' = [resp EXCEPT ![t] =
                   IF v.ok THEN NoResponse
                   ELSE IF v.raises # "ValueError" THEN UnhandledException
                   ELSE [status |-> 400, body |-> [error |-> v.error]]]
     /\ UNCHANGED <<variant, modelFile, metaFile, MODEL_PIPELINE, MODEL_METADATA,
                    users, session, calls, authHistory>>

\* create_app: if User.query.filter_by(email=data["email"]).first(): 409
SignupQuery(t) ==
  LET data == validate_signup_payload(req[t].payload).data
  IN /\ req[t].pc = "query"
     /\ req' = [req EXCEPT ![t].pc = IF UserByEmail(data.email) # 0 THEN "done"
                                     ELSE "commit"]
     /\ resp' = [resp EXCEPT ![t] =
                   IF UserByEmail(data.email) # 0
                   THEN [status |-> 409, body |-> [error |-> "Email already exists"]]
                   ELSE NoResponse]
     /\ UNCHANGED <<variant, modelFile, metaFile, MODEL_PIPELINE, MODEL_METADATA,
                    users, session, calls, authHistory>>

\* db.session.add(new_user); db.session.commit().  The UNIQUE column refuses
\* a stored email with IntegrityError: app.py catches it and answers 409,
\* create_app has no handler for it
SignupCommit(t) ==
  LET data   == validate_signup_payload(req[t].payload).data
      stored == UserByEmail(data.email) # 0
  IN /\ req[t].pc = "commit"
     /\ req' = [req EXCEPT ![t].pc = "done"]
     /\ users' = IF stored THEN users
                 ELSE Append(users,
                        [name |-> data.name, email |-> data.email,
                         password_hash |-> generate_password_hash(data.password.s)])
     /\ calls' = [calls EXCEPT ![t] = [added |-> IF stored THEN 0 ELSE 1]]
     /\ resp' = [resp EXCEPT ![t] =
                   IF ~stored
                     THEN [status |-> 201,
                           body |-> [message |-> "Account created successfully."]]
                   ELSE IF variant = "app"
                     THEN [status |-> 409,
                           body |-> [error |-> "An account with that email already exists."]]
                   ELSE UnhandledException]
     /\ UNCHANGED <<variant, modelFile, metaFile, MODEL_PIPELINE, MODEL_METADATA,
                    session, authHistory>>

NextSignup ==
  \E t \in 1..MaxThreads :
    \/ \E payload \in SignupRacePayloads : SignupArrive(t, payload)
    \/ SignupValidate(t)
    \/ SignupQuery(t)
    \/ SignupCommit(t)

SpecSignup == InitSignup /\ [][NextSignup]_vars

(***************************************************************************)
(* Properties of the score endpoint.  They speak of the request that was   *)
(* just handled (req), its response (resp) and what its handler invoked    *)
(* (calls).                                                                *)
(***************************************************************************)
IsScoreRequest == req.route = "score"

\* the request carried a JSON list under "transactions"
HasList == IsScoreRequest /\ req.transactions.k = "list"

Mentions(message, piece) == \E i \in DOMAIN message : message[i] = piece

HasResults == resp.status = 200 /\ "results" \in DOMAIN resp.body

\* the required fields that are a key of no row, in the order of
\* REQUIRED_RAW_COLUMNS
KeyOfNoRow(rows) ==
  SelectSeq(REQUIRED_RAW_COLUMNS,
            LAMBDA field : \A i \in DOMAIN rows : rows[i].row[field].k = "absent")

\* C1: when a score request passes validation and the Scorer returns one
\* score per row, the results are as many as the input rows, entry i carries
\* the 0-based input position i, and its score and reason are those of input
\* row i and feature vector i.
C1_ResultsAligned ==
  (IsScoreRequest /\ req.scores # << >>) =>
    /\ HasResults
    /\ LET rows    == req.transactions.rows
           results == resp.body.results
       IN /\ Len(results) = Len(rows)
          /\ \A k \in DOMAIN results :
               /\ results[k].count = rows[k].mult
               /\ results[k].index =
                    IF k = 1 THEN 0 ELSE results[k - 1].index + rows[k - 1].mult
               /\ results[k].score = req.scores[k]
               /\ results[k].reason \in
                    {<< >>, summarize_anomaly_reason(rows[k].row, FeatureRow(rows, k))}
          /\ results[Len(results)].index + rows[Len(rows)].mult = ListLen(rows)

\* two different rows were scored, the second one flagged, and its reason is
\* not the one the first row would get
C1_Witness ==
  /\ IsScoreRequest /\ HasResults
  /\ Len(resp.body.results) = 2
  /\ resp.body.results[2].index = 1
  /\ resp.body.results[2].reason # << >>
  /\ resp.body.results[2].reason #
       summarize_anomaly_reason(req.transactions.rows[1].row,
                                FeatureRow(req.transactions.rows, 1))

\* C2: in a successful score response a result is anomalous exactly when its
\* score is strictly below the threshold of that same response; a score equal
\* to the threshold is not anomalous.
C2_StrictThreshold ==
  (IsScoreRequest /\ HasResults) =>
    \A k \in DOMAIN resp.body.results :
      LET r == resp.body.results[k]
          T == resp.body.threshold
      IN /\ r.isAnomaly <=> (r.score.n * T.d < T.n * r.score.d)
         /\ (r.score = T) => ~r.isAnomaly

\* a result scored exactly at the threshold, beside one below it
C2_Witness ==
  /\ IsScoreRequest /\ HasResults
  /\ \E k \in DOMAIN resp.body.results :
       resp.body.results[k].score = resp.body.threshold
  /\ \E k \in DOMAIN resp.body.results : resp.body.results[k].isAnomaly

\* C3: in a successful score response the reason is empty exactly when the
\* result is not anomalous; the explanation generator is invoked for the rows
\* scored below the threshold and for no other, what it returns is attached
\* unchanged, and it is never empty.
C3_ReasonIffAnomalous ==
  (IsScoreRequest /\ HasResults) =>
    LET rows    == req.transactions.rows
        results == resp.body.results
    IN /\ \A k \in DOMAIN results :
            /\ (results[k].reason = << >>) <=> ~results[k].isAnomaly
            /\ results[k].isAnomaly =>
                 results[k].reason =
                   summarize_anomaly_reason(rows[k].row, calls.features[k])
       /\ calls.ex = {k \in DOMAIN results :
                        NumLt(results[k].score, resp.body.threshold)}
       /\ \A k \in calls.ex :
            summarize_anomaly_reason(rows[k].row, calls.features[k]) # << >>

\* a response with a flagged row and a row that is not flagged
C3_Witness ==
  /\ IsScoreRequest /\ HasResults
  /\ \E k \in DOMAIN resp.body.results :
       resp.body.results[k].isAnomaly /\ resp.body.results[k].reason # << >>
  /\ \E k \in DOMAIN resp.body.results :
       ~resp.body.results[k].isAnomaly /\ resp.body.results[k].reason = << >>

\* the response is the 400 of the size ceiling
LimitExceeded ==
  resp.status = 400 /\ "error" \in DOMAIN resp.body
  /\ Mentions(resp.body.error, "limit exceeded")

C6_UnauthorizedIffLoggedOut ==
  IsScoreRequest => ((resp.status = 401) <=> (authHistory # "login"))

\* a score request answered 401 after a logout that followed a login
C6_Witness ==
  IsScoreRequest /\ authHistory = "logout" /\ resp.status = 401

\* C7: every response of the score endpoint is a complete result list (one
\* result per input row) or a single error without results; when the Feature
\* Builder or the Scorer fails the response is one error of status 500.
C7_CompleteOrError ==
  IsScoreRequest =>
    /\ \/ /\ HasResults
          /\ "error" \notin DOMAIN resp.body
          /\ Len(resp.body.results) = Len(req.transactions.rows)
          /\ SumOver(DOMAIN resp.body.results,
                     [k \in DOMAIN resp.body.results |-> resp.body.results[k].count])
               = ListLen(req.transactions.rows)
       \/ /\ resp.status \in {400, 401, 500, 503}
          /\ "results" \notin DOMAIN resp.body
    /\ (calls.fb = 1 /\ req.scores = << >>) =>
         (resp.status = 500 /\ "results" \notin DOMAIN resp.body)
    /\ (calls.fb = 1 /\ req.scores # << >>) => HasResults

\* the Scorer raised on a batch of two rows the Feature Builder had processed
C7_Witness ==
  /\ IsScoreRequest /\ calls.fb = 1 /\ calls.sc = 1 /\ ~req.feature_raised
  /\ req.scores = << >>
  /\ Len(req.transactions.rows) = 2
  /\ resp.status = 500

\* C8, as stated: every row that reaches the Feature Builder has all four
\* keys date, amount, vendor and department.
C8_Original ==
  (IsScoreRequest /\ calls.fb = 1) =>
    \A k \in DOMAIN req.transactions.rows :
      \A i \in DOMAIN REQUIRED_RAW_COLUMNS :
        req.transactions.rows[k].row[REQUIRED_RAW_COLUMNS[i]].k # "absent"

\* C8, amended: in every batch that reaches the Feature Builder each of the
\* four keys is a key of at least one row (a row may lack keys that another
\* row of the batch has); a batch in which some key is a key of no row is
\* rejected before the Feature Builder is invoked.
C8_KeysSomewhereInBatch ==
  IsScoreRequest =>
    /\ calls.fb = 1 =>
         \A i \in DOMAIN REQUIRED_RAW_COLUMNS :
           \E k \in DOMAIN req.transactions.rows :
             req.transactions.rows[k].row[REQUIRED_RAW_COLUMNS[i]].k # "absent"
    /\ (HasList /\ KeyOfNoRow(req.transactions.rows) # << >>) =>
         (calls.fb = 0 /\ resp.status # 200)

\* a batch reached the Feature Builder with a row that has the amount key only
C8_Witness ==
  /\ IsScoreRequest /\ calls.fb = 1
  /\ \E k \in DOMAIN req.transactions.rows :
       req.transactions.rows[k].row = RowAmountOnly

\* the service reached the checks of the rows: the caller is authenticated,
\* a model is loaded and the list has 1 to 10,000 rows
ReachesRowChecks ==
  /\ HasList /\ IsAuthenticated /\ ~IsNone(MODEL_PIPELINE)
  /\ ListLen(req.transactions.rows) \in 1..MAX_BATCH

\* ... and every row is a JSON object
ReachesColumnCheck ==
  /\ ReachesRowChecks
  /\ \A k \in DOMAIN req.transactions.rows :
       req.transactions.rows[k].row.json = "object"

MissingFieldsError ==
  resp.status = 400 /\ "error" \in DOMAIN resp.body
  /\ resp.body.error[1] \in {"Missing fields: ", "Missing required fields: "}

\* C9, as stated: when some required field is a key of no row of the batch
\* the answer is a single 400 naming exactly those fields in the order date,
\* amount, vendor, department, before any processing; a batch in which each
\* field is a key of some row is not rejected for missing fields.
C9_Original ==
  (HasList /\ IsAuthenticated /\ req.transactions.rows # << >>) =>
    LET missing == KeyOfNoRow(req.transactions.rows)
    IN /\ missing # << >> =>
            /\ MissingFieldsError
            /\ Tail(resp.body.error) = missing
            /\ calls = NoCalls
       /\ missing = << >> => ~MissingFieldsError

\* C9, amended: the same, for the requests that reach the column check, that
\* is with a model loaded and a list of 1 to 10,000 JSON objects; a request
\* that fails an earlier check is answered by that check, and none is
\* answered with a missing-fields error before those checks have passed.
C9_MissingFieldsNamed ==
  /\ ReachesColumnCheck =>
       LET missing == KeyOfNoRow(req.transactions.rows)
       IN /\ missing # << >> =>
               /\ MissingFieldsError
               /\ Tail(resp.body.error) = missing
               /\ calls = NoCalls
          /\ missing = << >> => ~MissingFieldsError
  /\ (IsScoreRequest /\ MissingFieldsError) =>
       (ReachesRowChecks /\ Tail(resp.body.error) = KeyOfNoRow(req.transactions.rows))

\* a row with the amount key only: date, vendor and department are named
C9_Witness ==
  /\ ReachesColumnCheck /\ MissingFieldsError
  /\ req.transactions.rows = <<Run(RowAmountOnly, 1)>>
  /\ Tail(resp.body.error) = <<"date", "vendor", "department">>

\* the amount (the date) of the row is absent, null or not parseable
AmountUnusable(row) == row.amount.k \in {"absent", "null", "text"}

DateUnusable(row) == row.date.k \in {"absent", "null", "text"}

\* C10: in every batch the Feature Builder processes, a row whose amount is
\* absent or not parseable gets amount 0.0 and a row whose date is absent or
\* not parseable gets day_of_week -1, month 0, is_month_end 0 and
\* doc_age_days 0; every row of the batch gets a feature vector and, when the
\* Scorer returns, a result.
C10_NeutralDefaults ==
  (IsScoreRequest /\ calls.fb = 1 /\ ~req.feature_raised) =>
    LET rows == req.transactions.rows
    IN /\ DOMAIN calls.features = DOMAIN rows
       /\ \A k \in DOMAIN rows :
            /\ AmountUnusable(rows[k].row) => calls.features[k].amount = R(0)
            /\ DateUnusable(rows[k].row) =>
                 /\ calls.features[k].day_of_week = 0 - 1
                 /\ calls.features[k].month = 0
                 /\ calls.features[k].is_month_end = 0
                 /\ calls.features[k].doc_age_days = 0
       /\ req.scores # << >> =>
            (HasResults /\ DOMAIN resp.body.results = DOMAIN rows)
       /\ req.scores = << >> => resp.status = 500

\* a row with nothing usable was scored beside a complete row
C10_Witness ==
  /\ IsScoreRequest /\ HasResults
  /\ req.transactions.rows = <<Run(RowFull, 1), Run(RowMalformed, 1)>>
  /\ calls.features[2].amount = R(0)
  /\ calls.features[2].day_of_week = 0 - 1
  /\ calls.features[1].day_of_week # 0 - 1


(***************************************************************************)
(* Properties of the explanation generator, under SpecExplain.             *)
(***************************************************************************)
RULE_ORDER ==
  <<"vendor_outlier", "dept_outlier", "global_outlier", "vendor_novelty", "dept_novelty">>

\* the rule matches the feature dict of the request
RuleMatches(rule) ==
  LET value(key) == safe_float(DictGet(req.features, key), R(0))
  IN CASE rule = "vendor_outlier" ->
            NumGe(value("vendor_amount_ratio"), 5) /\ NumPos(value("vendor_avg_amount"))
       [] rule = "dept_outlier" ->
            NumGe(value("dept_amount_ratio"), 5) /\ NumPos(value("dept_avg_amount"))
       [] rule = "global_outlier" -> NumGe(value("global_amount_zscore"), 3)
       [] rule = "vendor_novelty" -> NumLe(value("vendor_txn_freq"), 1)
       [] rule = "dept_novelty" -> NumLe(value("dept_txn_freq"), 1)

\* C4: the reason is made of the messages of the first two matching rules, in
\* the order vendor outlier, department outlier, global outlier, vendor
\* novelty, department novelty (one message when one rule matches); a row
\* with vendor_amount_ratio >= 5 and vendor_avg_amount > 0 has the vendor
\* outlier message first, and a row matching the three outlier rules gets
\* the vendor and department messages only.
C4_FirstTwoInOrder ==
  req.route = "explain" =>
    LET matching == SelectSeq(RULE_ORDER, RuleMatches)
        reason   == resp.body.reason
        rules    == [i \in DOMAIN reason |-> reason[i].rule]
    IN /\ matching # << >> =>
            rules = SubSeq(matching, 1, IF Len(matching) < 2 THEN Len(matching) ELSE 2)
       /\ RuleMatches("vendor_outlier") =>
            /\ reason[1].rule = "vendor_outlier"
            /\ reason[1].name = DisplayName(req.row, "vendor", THIS_VENDOR)
            /\ reason[1].ratio = req.features.vendor_amount_ratio
            /\ reason[1].avg = req.features.vendor_avg_amount
       /\ (RuleMatches("vendor_outlier") /\ RuleMatches("dept_outlier")
           /\ RuleMatches("global_outlier")) =>
            rules = <<"vendor_outlier", "dept_outlier">>

\* the three outlier rules and both novelty rules match, two messages are
\* returned
C4_Witness ==
  /\ req.route = "explain"
  /\ \A i \in DOMAIN RULE_ORDER : RuleMatches(RULE_ORDER[i])
  /\ Len(resp.body.reason) = 2


\* C20: the reason is the fallback message 'Model flagged this entry as
\* unusual compared to prior transactions.' exactly when none of the five
\* rules matches, that is when (vendor_amount_ratio < 5 or vendor_avg_amount
\* <= 0) and (dept_amount_ratio < 5 or dept_avg_amount <= 0) and
\* global_amount_zscore < 3 and vendor_txn_freq > 1 and dept_txn_freq > 1,
\* a feature that is missing or no number counting as 0; in every other case
\* the fallback text is no part of the reason.
C20_FallbackIffNoRule ==
  req.route = "explain" =>
    LET value(key) == safe_float(DictGet(req.features, key), R(0))
        below(key, c) == value(key).n < c * value(key).d
        noRule ==
          /\ below("vendor_amount_ratio", 5) \/ value("vendor_avg_amount").n <= 0
          /\ below("dept_amount_ratio", 5) \/ value("dept_avg_amount").n <= 0
          /\ below("global_amount_zscore", 3)
          /\ value("vendor_txn_freq").n > value("vendor_txn_freq").d
          /\ value("dept_txn_freq").n > value("dept_txn_freq").d
        reason == resp.body.reason
    IN /\ noRule <=> reason = <<FALLBACK_REASON>>
       /\ ~noRule => \A i \in DOMAIN reason : reason[i] # FALLBACK_REASON

\* ratios of 4 and 4.9, a z-score of 2 and frequencies of 2: the fallback
C20_Witness ==
  /\ req.route = "explain"
  /\ "dept_amount_ratio" \in DOMAIN req.features
  /\ req.features.vendor_amount_ratio = R(4)
  /\ req.features.dept_amount_ratio = Rat(49, 10)
  /\ req.features.vendor_avg_amount = R(20)
  /\ req.features.global_amount_zscore = R(2)
  /\ req.features.vendor_txn_freq = R(2) /\ req.features.dept_txn_freq = R(2)
  /\ resp.body.reason = <<FALLBACK_REASON>>


IsFeaturesCall == req.route = "features"

\* the frame the features in calls.features were built from
BuiltFrame == req.input

NormalizedVendor(row) ==
  IF row.vendor.k \in {"absent", "null"} THEN <<"Unknown Vendor">> ELSE row.vendor.s

NormalizedDepartment(row) ==
  IF row.department.k \in {"absent", "null"} THEN <<"Unknown Department">>
  ELSE row.department.s

\* C13: vendor_txn_freq of row i is the number of rows of the same batch
\* whose normalized vendor (exact string, case-sensitive, untrimmed, missing
\* values replaced by 'Unknown Vendor') equals row i's, and vendor_avg_amount
\* is the mean amount of exactly those rows; likewise for the department
\* with 'Unknown Department'.  Rows with a missing vendor are grouped with
\* the rows whose vendor is literally 'Unknown Vendor'.
C13_ExactGrouping ==
  (IsFeaturesCall /\ req.phase = "first") =>
    \A i \in DOMAIN BuiltFrame :
      LET f       == calls.features[i]
          vpeers  == {j \in DOMAIN BuiltFrame :
                        NormalizedVendor(BuiltFrame[j].row)
                          = NormalizedVendor(BuiltFrame[i].row)}
          dpeers  == {j \in DOMAIN BuiltFrame :
                        NormalizedDepartment(BuiltFrame[j].row)
                          = NormalizedDepartment(BuiltFrame[i].row)}
          amounts == [j \in DOMAIN BuiltFrame |-> FrameAmount(BuiltFrame[j].row)]
      IN /\ f.vendor = NormalizedVendor(BuiltFrame[i].row)
         /\ f.department = NormalizedDepartment(BuiltFrame[i].row)
         /\ f.vendor_txn_freq = R(Cardinality(vpeers))
         /\ f.dept_txn_freq = R(Cardinality(dpeers))
         /\ f.vendor_avg_amount.d > 0
         /\ f.vendor_avg_amount.n * Cardinality(vpeers)
              = SumOver(vpeers, amounts) * f.vendor_avg_amount.d
         /\ f.dept_avg_amount.d > 0
         /\ f.dept_avg_amount.n * Cardinality(dpeers)
              = SumOver(dpeers, amounts) * f.dept_avg_amount.d

\* a missing vendor and a literal 'Unknown Vendor' share a group of two (mean
\* of 0 and 300), beside a vendor "A " that is alone in its group
C13_Witness ==
  /\ IsFeaturesCall /\ req.phase = "first" /\ Len(BuiltFrame) = 3
  /\ \E i, j, k \in DOMAIN BuiltFrame :
       /\ BuiltFrame[i].row.vendor = Absent
       /\ BuiltFrame[j].row.vendor = StrCell(UNKNOWN_VENDOR)
       /\ BuiltFrame[k].row.vendor = StrCell(<<"A", WS>>)
       /\ calls.features[i].vendor_txn_freq = R(2)
       /\ calls.features[i].vendor_avg_amount.n
            = 150 * calls.features[i].vendor_avg_amount.d
       /\ calls.features[k].vendor_txn_freq = R(1)

C15_Original ==
  LET VendorMessages(reason) ==
        {k \in DOMAIN reason : reason[k].rule \in {"vendor_outlier", "vendor_novelty"}}
      DepartmentMessages(reason) ==
        {k \in DOMAIN reason : reason[k].rule \in {"dept_outlier", "dept_novelty"}}
      NonBlank(cell) == cell.k = "str" /\ Strip(cell.s) # << >>
      SingleRowWithoutNames ==
        /\ Len(BuiltFrame) = 1
        /\ BuiltFrame[1].row.vendor = Absent /\ BuiltFrame[1].row.department = Absent
  IN
  (IsFeaturesCall /\ req.phase = "first") =>
    /\ \A i \in DOMAIN BuiltFrame :
         \A k \in VendorMessages(resp.body.reasons[i]) :
           resp.body.reasons[i][k].name =
             IF NonBlank(BuiltFrame[i].row.vendor) THEN Strip(BuiltFrame[i].row.vendor.s)
             ELSE IF BuiltFrame[i].row.vendor.k = "absent" THEN <<"Unknown Vendor">>
             ELSE <<"this vendor">>
    /\ SingleRowWithoutNames =>
         /\ calls.features[1].vendor = <<"Unknown Vendor">>
         /\ calls.features[1].department = <<"Unknown Department">>
         /\ calls.features[1].vendor_txn_freq = R(1)
         /\ \E k \in DOMAIN resp.body.reasons[1] :
              resp.body.reasons[1][k] =
                [rule |-> "vendor_novelty", name |-> <<"Unknown Vendor">>]

\* C15, amended: the vendor (department) shown in a message is the trimmed
\* raw value when it is a non-blank string, and 'this vendor' ('this
\* department') when it is blank, null or absent; the feature sentinel is
\* used for grouping only.  A single row without vendor and department has
\* feature vendor 'Unknown Vendor', department 'Unknown Department',
\* vendor_txn_freq 1, and its reason says 'First transaction recorded for
\* this vendor'.
C15_DisplayNames ==
  LET VendorMessages(reason) ==
        {k \in DOMAIN reason : reason[k].rule \in {"vendor_outlier", "vendor_novelty"}}
      DepartmentMessages(reason) ==
        {k \in DOMAIN reason : reason[k].rule \in {"dept_outlier", "dept_novelty"}}
      NonBlank(cell) == cell.k = "str" /\ Strip(cell.s) # << >>
      SingleRowWithoutNames ==
        /\ Len(BuiltFrame) = 1
        /\ BuiltFrame[1].row.vendor = Absent /\ BuiltFrame[1].row.department = Absent
  IN
  (IsFeaturesCall /\ req.phase = "first") =>
    /\ \A i \in DOMAIN BuiltFrame :
         /\ \A k \in VendorMessages(resp.body.reasons[i]) :
              resp.body.reasons[i][k].name =
                IF NonBlank(BuiltFrame[i].row.vendor)
                THEN Strip(BuiltFrame[i].row.vendor.s) ELSE <<"this vendor">>
         /\ \A k \in DepartmentMessages(resp.body.reasons[i]) :
              resp.body.reasons[i][k].name =
                IF NonBlank(BuiltFrame[i].row.department)
                THEN Strip(BuiltFrame[i].row.department.s) ELSE <<"this department">>
    /\ SingleRowWithoutNames =>
         /\ calls.features[1].vendor = <<"Unknown Vendor">>
         /\ calls.features[1].department = <<"Unknown Department">>
         /\ calls.features[1].vendor_txn_freq = R(1)
         /\ resp.body.reasons[1] =
              << [rule |-> "vendor_novelty", name |-> <<"this vendor">>],
                 [rule |-> "dept_novelty", name |-> <<"this department">>] >>

\* the single row without vendor and department, explained
C15_Witness ==
  /\ IsFeaturesCall /\ req.phase = "first" /\ Len(BuiltFrame) = 1
  /\ BuiltFrame[1].row.vendor = Absent /\ BuiltFrame[1].row.department = Absent
  /\ calls.features[1].vendor = <<"Unknown Vendor">>
  /\ resp.body.reasons[1][1].name = <<"this vendor">>

(***************************************************************************)
(* Properties of the z-score, under SpecZScore.                            *)
(***************************************************************************)
\* C12, as stated: in a batch of any size whose amounts are all identical,
\* global_amount_zscore is 0 for every row, the standard deviation of 0 (or
\* below 1e-9) being replaced by 1.0 as divisor.
C12_Original ==
  (req # NoRequest /\ req.route = "zscore") =>
    /\ resp.body.global_amount_zscore.m = 0
    /\ resp.body.global_amount_zscore.denom = "one"

(***************************************************************************)
(* Properties of the validators, under SpecValidate.                       *)
(***************************************************************************)
\* C17: validate_signup_payload returns {name trimmed, email trimmed and
\* lower-cased, password} exactly when the trimmed name has at least 2
\* characters, the email matches the pattern, the password has at least 8
\* characters, and confirmPassword is non-empty and equal to password;
\* otherwise it raises ValueError for the first failing check in that order.
\* validate_login_payload returns the normalized email and the password
\* exactly when the email matches the pattern and the password is non-empty,
\* and otherwise raises ValueError for the first failing check.
C17_Original ==
  LET p        == req.payload
      text(v)  == IF IsNone(v) \/ ~IsStr(v) THEN << >> ELSE v.s
      empty(v) == IsNone(v) \/ v = [s |-> << >>] \/ v = [num |-> 0]
      name     == Strip(text(p.name))
      email    == Lower(Strip(text(p.email)))
      failing  == IF Len(name) < 2 THEN "Name must be at least 2 characters."
                  ELSE IF ~EMAIL_REGEX_match(email) THEN "Enter a valid email address."
                  ELSE IF Len(text(p.password)) < 8
                    THEN "Password must be at least 8 characters."
                  ELSE IF empty(p.confirmPassword)
                    THEN "Password confirmation is required."
                  ELSE IF p.password # p.confirmPassword THEN "Passwords do not match."
                  ELSE ""
      failingLogin == IF ~EMAIL_REGEX_match(email) THEN "Enter a valid email address."
                      ELSE IF empty(p.password) THEN "Password is required."
                      ELSE ""
  IN /\ req.route = "validate_signup" =>
          IF failing = ""
          THEN resp.body = [ok |-> TRUE,
                            data |-> [name |-> name, email |-> email,
                                      password |-> p.password]]
          ELSE resp.body = [ok |-> FALSE, raises |-> "ValueError", error |-> failing]
     /\ req.route = "validate_login" =>
          IF failingLogin = ""
          THEN resp.body = [ok |-> TRUE,
                            data |-> [email |-> email, password |-> p.password]]
          ELSE resp.body = [ok |-> FALSE, raises |-> "ValueError", error |-> failingLogin]

(***************************************************************************)
(* Properties of the threaded blueprint server, under SpecConcurrent.      *)
(***************************************************************************)
\* C19: under any interleaving of concurrent requests with
\* load_anomaly_model, a request that scores with the loaded pipeline
\* classifies against the threshold of that model's metadata, never against
\* a default taken from a MODEL_METADATA that was reset or not yet filled.
C19_Original ==
  \A t \in 1..MaxThreads :
    (req[t].pc = "done" /\ resp[t].status = 200) =>
      /\ resp[t].body.threshold = metaFile.doc.threshold
      /\ \A k \in DOMAIN resp[t].body.results :
           resp[t].body.results[k].isAnomaly
             = NumLt(resp[t].body.results[k].score, metaFile.doc.threshold)

\* C21: once a model has been loaded no later request sets MODEL_PIPELINE
\* back to None, so under any interleaving a score request that has passed
\* the 503 availability check still finds a loaded pipeline when it calls the
\* Scorer, and is never answered 'Scoring failed' because the pipeline was
\* reset in between.
C21_Original ==
  \A t \in 1..MaxThreads :
    /\ req[t].pc \in {"line94", "line98"} => ~IsNone(MODEL_PIPELINE)
    /\ req[t].pc = "done" => resp[t] # ScoringFailed("backend", "scorer")

(***************************************************************************)
(* Properties of the bearer tokens, under SpecToken.                       *)
(***************************************************************************)
\* C22: logout ends only the cookie session and does not revoke bearer
\* tokens.  After a logout, a request to a protected endpoint that carries
\* the token of an earlier successful login is treated as authenticated as
\* long as the token is younger than 24 hours; a request with no valid
\* session and no valid token (no header, a string that is no token, or a
\* token older than 24 hours) is answered 401.
C22_TokenSurvivesLogout ==
  (req.route = "meta") =>
    LET genuine == ~IsNone(req.header) /\ "issued" \in DOMAIN req.header
        age     == (req.now - req.header.issued) * 43200
    IN /\ (authHistory.event = "logout" /\ genuine /\ age < 24 * 3600) =>
            resp.status = 200
       /\ (session = 0 /\ (~genuine \/ age > 24 * 3600)) => resp.status = 401

\* twelve hours after the login and after a logout, the token alone opens
\* the protected endpoint
C22_Witness ==
  /\ req.route = "meta"
  /\ authHistory.event = "logout" /\ session = 0
  /\ req.header = authHistory.token /\ ~IsNone(req.header)
  /\ req.now = req.header.issued + 1
  /\ resp.status = 200

(***************************************************************************)
(* Properties of concurrent signups, under SpecSignup.                     *)
(***************************************************************************)
\* C23: after any interleaving of signup requests no two stored accounts
\* have the same normalized (trimmed, lower-cased) email; an answered signup
\* with an invalid payload got 400 and added no account, an answered signup
\* whose normalized email belongs to an account that it did not add itself
\* got 409 and added no account, and a signup added an account (exactly one)
\* exactly when it was answered 201.
C23_Original ==
  /\ \A i, j \in DOMAIN users :
       Lower(Strip(users[i].email)) = Lower(Strip(users[j].email)) => i = j
  /\ \A t \in 1..MaxThreads :
       req[t].pc = "done" =>
         LET v == validate_signup_payload(req[t].payload)
         IN /\ ~v.ok => resp[t].status = 400 /\ calls[t].added = 0
            /\ (v.ok /\ UserByEmail(v.data.email) # 0 /\ calls[t].added = 0) =>
                 resp[t].status = 409
            /\ calls[t].added = 1 <=> resp[t].status = 201
            /\ calls[t].added \in {0, 1}


=============================================================================
